---- MODULE Spec2Model ----
(***************************************************************************)
(* Model of the displayio compositing and refresh engine of                *)
(* Adafruit_Blinka_Displayio: Area, Bitmap damage tracking, the            *)
(* Group / TileGrid scene graph, the display core's refresh state machine  *)
(* and the Display refresh orchestration with its background worker.       *)
(***************************************************************************)
EXTENDS Integers, Sequences, FiniteSets, TLC

(***************************************************************************)
(* Bounds of the model.                                                    *)
(***************************************************************************)
BmpW == 2
BmpH == 2
MaxLayers == 2
MaxTime == 6
RaceMaxTime == 2
MaxScale == 2
MaxAbsScale == 4
MaxCoord == 2
ClipMargin == 1
MaxGrid == 2
MaxRecords == 2
MaxParams == 2

(***************************************************************************)
(* Construction parameters of the modelled objects.                        *)
(***************************************************************************)
DisplayWidth == 4
DisplayHeight == 3
NativeFramesPerSecond == 1000

None == "None"

Groups == {"g1", "g2"}
TileGrids == {"t1"}
Nodes == Groups \cup TileGrids

Min(a, b) == IF a < b THEN a ELSE b
Max(a, b) == IF a > b THEN a ELSE b

(***************************************************************************)
(* Area (displayio/_area.py) and RectangleStruct (displayio/_structs.py). *)
(***************************************************************************)
Area(x1, y1, x2, y2) == [x1 |-> x1, y1 |-> y1, x2 |-> x2, y2 |-> y2]

AreaEmpty(a) == (a.x1 = a.x2) \/ (a.y1 = a.y2)

\* _compute_overlap: the boolean result and the rectangle left in "overlap".
\* The y bounds are only written when the x ranges intersect.
ComputeOverlapOkTouching(a, other) ==
    /\ Max(a.x1, other.x1) <= Min(a.x2, other.x2)
    /\ Max(a.y1, other.y1) <= Min(a.y2, other.y2)

ComputeOverlapOk(a, other) ==
    /\ Max(a.x1, other.x1) < Min(a.x2, other.x2)
    /\ Max(a.y1, other.y1) < Min(a.y2, other.y2)

ComputeOverlap(a, other, overlap) ==
    LET x1 == Max(a.x1, other.x1)
        x2 == Min(a.x2, other.x2)
    IN IF x1 >= x2
       THEN [overlap EXCEPT !.x1 = x1, !.x2 = x2]
       ELSE Area(x1, Max(a.y1, other.y1), x2, Min(a.y2, other.y2))

AreaUnion(a, other) ==
    IF AreaEmpty(a) THEN a
    ELSE IF AreaEmpty(other) THEN other
    ELSE Area(Min(a.x1, other.x1), Min(a.y1, other.y1),
              Max(a.x2, other.x2), Max(a.y2, other.y2))

\* The pixel coordinates an area covers (half-open bounds).
Covers(a, c) == a.x1 <= c[1] /\ c[1] < a.x2 /\ a.y1 <= c[2] /\ c[2] < a.y2

(***************************************************************************)
(* Bitmap (displayio/_bitmap.py).                                          *)
(***************************************************************************)
Coords == (0 .. BmpW - 1) \X (0 .. BmpH - 1)

\* Bitmap.__init__: the dirty area starts as the whole bitmap.
BitmapInitDirtyEmpty == Area(0, 0, 0, 0)

BitmapInitDirty == Area(0, 0, BmpW, BmpH)

\* Bitmap.__setitem__, lines 100-113: the damage update of one write.
SetItemDirtyNoGrow(d, x, y) ==
    IF d.x1 = d.x2 THEN Area(x, y, x + 1, y + 1) ELSE d

SetItemDirty(d, x, y) ==
    IF d.x1 = d.x2
    THEN Area(x, y, x + 1, y + 1)
    ELSE LET dx == IF x < d.x1 THEN [d EXCEPT !.x1 = x]
                   ELSE IF x >= d.x2 THEN [d EXCEPT !.x2 = x + 1]
                   ELSE d
         IN IF y < dx.y1 THEN [dx EXCEPT !.y1 = y]
            ELSE IF y >= dx.y2 THEN [dx EXCEPT !.y2 = y + 1]
            ELSE dx

BitmapFinishRefreshKeep(d) == d

\* Bitmap._finish_refresh (the second definition, lines 191-195, is the one
\* in force; the bitmap of the model is never read-only).
BitmapFinishRefresh(d) == [d EXCEPT !.x1 = 0, !.x2 = 0]

\* Bitmap._get_refresh_areas: nothing when x1 = x2, else the dirty area.
BitmapGetRefreshAreas(d) == IF d.x1 = d.x2 THEN << >> ELSE << d >>

\* The minimal bounding rectangle of a non-empty set of coordinates.
BBox(S) ==
    LET xs == {c[1] : c \in S}
        ys == {c[2] : c \in S}
        lo(T) == CHOOSE v \in T : \A w \in T : v <= w
        hi(T) == CHOOSE v \in T : \A w \in T : v >= w
    IN Area(lo(xs), lo(ys), hi(xs) + 1, hi(ys) + 1)

(***************************************************************************)
(* Transforms (displayio/_structs.py TransformStruct).                     *)
(***************************************************************************)
Transform(x, y, dx, dy, scale, transpose_xy, mirror_x, mirror_y) ==
    [x |-> x, y |-> y, dx |-> dx, dy |-> dy, scale |-> scale,
     transpose_xy |-> transpose_xy, mirror_x |-> mirror_x, mirror_y |-> mirror_y]

\* TransformStruct(): the defaults of the dataclass; also the transform
\* every Group and TileGrid is constructed with.
IdentityTransform == Transform(0, 0, 1, 1, 1, FALSE, FALSE, FALSE)

\* _DisplayCore.__init__, line 118: the device transform of the display.
DisplayTransform == IdentityTransform

\* _DisplayCore.__init__, line 111: the full-device area.
DisplayArea == Area(0, 0, DisplayWidth, DisplayHeight)

\* Constructor arguments x, y, scale of the two Groups.
GroupX == [g \in Groups |-> IF g = "g2" THEN 1 ELSE 0]
GroupY == [g \in Groups |-> 0]
GroupScale == [g \in Groups |-> IF g = "g2" THEN 2 ELSE 1]

\* TileGrid.__init__ with width = height = 1 and the default tile size:
\* one tile that is the whole bitmap, placed at x = y = 0.
TileGridX == 0
TileGridY == 0
PixelWidth == 1 * BmpW
PixelHeight == 1 * BmpH
TileGridTransposeXY == FALSE

(***************************************************************************)
(* The scene graph: Group (displayio/_group.py) and TileGrid               *)
(* (displayio/tilegrid.py).  A scene value s bundles                       *)
(*   s.in_group[n]      the in-group flag of node n,                       *)
(*   s.abs[g]           the _absolute_transform of Group g,                *)
(*   s.tgt[t]           what the _absolute_transform attribute of          *)
(*                      TileGrid t refers to: "own" (the object made by    *)
(*                      its constructor), a Group (the very object that    *)
(*                      Group holds, update_transform keeps the reference) *)
(*                      or None,                                           *)
(*   s.current_area[t]  the _current_area of TileGrid t,                   *)
(*   s.scale[g]         the _scale of Group g,                             *)
(*   s.x[g], s.y[g]     the _group_x and _group_y of Group g,              *)
(*   s.tile_x[t], s.tile_y[t], s.tile_transpose_xy[t]                      *)
(*                      the _x, _y and _transpose_xy of TileGrid t,        *)
(*   s.transform        the transform of the display core.                 *)
(***************************************************************************)
TileGridTransform(s, t) ==
    IF s.tgt[t] = "own" THEN IdentityTransform ELSE s.abs[s.tgt[t]]

\* TileGrid._update_current_x
UpdateCurrentX(s, t) ==
    LET at == TileGridTransform(s, t)
        ca == s.current_area[t]
        width == IF s.tile_transpose_xy[t] THEN PixelHeight ELSE PixelWidth
    IN IF at.transpose_xy
       THEN LET y1 == at.y + at.dy * s.tile_x[t]
                y2 == at.y + at.dy * (s.tile_x[t] + width)
            IN [s EXCEPT !.current_area[t] =
                   [ca EXCEPT !.y1 = Min(y1, y2), !.y2 = Max(y1, y2)]]
       ELSE LET x1 == at.x + at.dx * s.tile_x[t]
                x2 == at.x + at.dx * (s.tile_x[t] + width)
            IN [s EXCEPT !.current_area[t] =
                   [ca EXCEPT !.x1 = Min(x1, x2), !.x2 = Max(x1, x2)]]

\* TileGrid._update_current_y
UpdateCurrentY(s, t) ==
    LET at == TileGridTransform(s, t)
        ca == s.current_area[t]
        height == IF s.tile_transpose_xy[t] THEN PixelWidth ELSE PixelHeight
    IN IF at.transpose_xy
       THEN LET x1 == at.x + at.dx * s.tile_y[t]
                x2 == at.x + at.dx * (s.tile_y[t] + height)
            IN [s EXCEPT !.current_area[t] =
                   [ca EXCEPT !.x1 = Min(x1, x2), !.x2 = Max(x1, x2)]]
       ELSE LET y1 == at.y + at.dy * s.tile_y[t]
                y2 == at.y + at.dy * (s.tile_y[t] + height)
            IN [s EXCEPT !.current_area[t] =
                   [ca EXCEPT !.y1 = Min(y1, y2), !.y2 = Max(y1, y2)]]

\* TileGrid.update_transform: keeps the reference it is handed and, unless
\* that is None, recomputes the current area.  It never writes in_group.
TileGridUpdateTransform(s, t, p) ==
    LET s1 == [s EXCEPT !.tgt[t] = p]
    IN IF p # None THEN UpdateCurrentY(UpdateCurrentX(s1, t), t) ELSE s1

\* The transform object a parent hands down: the Group's own, or the
\* display core's for the root.
ParentTransform(s, p) == IF p = "display" THEN s.transform ELSE s.abs[p]

\* Group._update_transform, lines 60-71: the absolute transform composed
\* from the parent's and the Group's local x, y and scale.
ComposeTransformUnitStep(pt, group_x, group_y, _scale) ==
    LET x == IF pt.transpose_xy THEN group_y ELSE group_x
        y == IF pt.transpose_xy THEN group_x ELSE group_y
    IN Transform(pt.x + pt.dx * x, pt.y + pt.dy * y, pt.dx, pt.dy,
                 pt.scale * _scale,
                 pt.transpose_xy, pt.mirror_x, pt.mirror_y)

ComposeTransform(pt, group_x, group_y, _scale) ==
    LET x == IF pt.transpose_xy THEN group_y ELSE group_x
        y == IF pt.transpose_xy THEN group_x ELSE group_y
    IN Transform(pt.x + pt.dx * x, pt.y + pt.dy * y,
                 pt.dx * _scale, pt.dy * _scale,
                 pt.scale * _scale,
                 pt.transpose_xy, pt.mirror_x, pt.mirror_y)

\* Group._update_transform and Group._update_child_transforms; p is the
\* parent whose transform is passed, None for a detach.  A TileGrid child
\* is handed the Group's own transform object.
RECURSIVE UpdateTransform(_, _, _, _)
RECURSIVE UpdateLayers(_, _, _, _)
UpdateTransform(s, lay, n, p) ==
    IF n \in TileGrids
    THEN TileGridUpdateTransform(s, n, p)
    ELSE LET s1 == [s EXCEPT !.in_group[n] = (p # None),
                             !.abs[n] = IF p # None
                                        THEN ComposeTransform(ParentTransform(s, p),
                                                              s.x[n], s.y[n],
                                                              s.scale[n])
                                        ELSE @]
         IN IF s1.in_group[n] THEN UpdateLayers(s1, lay, lay[n], n) ELSE s1

UpdateLayers(s, lay, seq, g) ==
    IF seq = << >> THEN s
    ELSE UpdateLayers(UpdateTransform(s, lay, Head(seq), g), lay, Tail(seq), g)

\* The Groups reachable from n through child lists, n included.
RECURSIVE DescOrSelf(_, _)
DescOrSelf(lay, n) ==
    IF n \in TileGrids THEN {n}
    ELSE {n} \cup UNION {DescOrSelf(lay, lay[n][i]) : i \in 1 .. Len(lay[n])}

\* list.insert(index, e), list.pop(index), list.index(e) and l[index] = e
\* with 0-based indexes.
ListInsert(l, i, e) == SubSeq(l, 1, i) \o << e >> \o SubSeq(l, i + 1, Len(l))
ListPop(l, i) == SubSeq(l, 1, i) \o SubSeq(l, i + 2, Len(l))
ListIndex(l, e) == (CHOOSE k \in 1 .. Len(l) : l[k] = e /\ \A j \in 1 .. k - 1 : l[j] # e) - 1
ListSet(l, i, e) == [l EXCEPT ![i + 1] = e]
Range(l) == {l[k] : k \in 1 .. Len(l)}

(***************************************************************************)
(* State.                                                                  *)
(***************************************************************************)
VARIABLES
    layers,               \* Group._layers
    in_group,             \* Group._in_group / TileGrid.in_group
    abs,                  \* Group._absolute_transform
    tgt,                  \* TileGrid._absolute_transform (a reference)
    current_area,         \* TileGrid._current_area
    scale,                \* Group._scale
    current_group,        \* _DisplayCore.current_group
    full_refresh,         \* _DisplayCore.full_refresh
    refresh_in_progress,  \* _DisplayCore.refresh_in_progress
    last_refresh,         \* _DisplayCore.last_refresh (ms)
    rotation,             \* _DisplayCore.rotation
    width,                \* _DisplayCore.width
    height,               \* _DisplayCore.height
    transform,            \* _DisplayCore.transform
    area,                 \* _DisplayCore.area
    auto_refresh,         \* Display._auto_refresh
    first_manual_refresh, \* Display._first_manual_refresh
    last_refresh_call,    \* Display._last_refresh_call (ms)
    refresh_thread,       \* Display._refresh_thread (displayio/display.py)
    worker,               \* position of that thread in _refresh_loop
    setter_value,         \* the argument of the auto_refresh setter call
                          \* in progress
    rect_a,               \* two Areas and the results of _compute_overlap
    rect_b,               \* on them, in both orders
    overlap_ab,
    overlap_ba,
    union_ab,             \* the result of rect_a._union(rect_b, Area())
    colorspace,           \* _DisplayCore.colorspace
    clipped,              \* the result of clip_area(rect_a, Area())
    tg,                   \* a TileGrid made with constructor arguments of
                          \* its own: the arguments and _width, _height,
                          \* _tile_width, _tile_height, _tiles
    tileCall,             \* the last tile access on it and its outcome
    init_sequence,        \* the init_sequence bytes given to the Display
    init_records,         \* history: the records those bytes were made from
    init_i,               \* Display._initialize: the cursor i
    init_sent,            \* the commands sent so far, each with its data
    init_slept,           \* the time.sleep calls so far, in ms
    bus_owner,            \* the thread that holds the lock of the SPI bus
                          \* (its transaction is open), or None
    bus_pc,               \* position of each thread in _refresh_area
    sub_index,            \* _refresh_area: subrect_index of each thread
    sub_count,            \* _refresh_area: subrectangles of each thread
    bmp,                  \* the call of Bitmap.__init__ under way or made
    group_x,              \* Group._group_x
    group_y,              \* Group._group_y
    tile_x,               \* TileGrid._x
    tile_y,               \* TileGrid._y
    tile_transpose_xy,    \* TileGrid._transpose_xy
    colors,               \* Palette._colors
    ra,                   \* the call of Display._refresh_area under way or
                          \* made, with the subrectangles it has sent
    now,                  \* time.monotonic() * 1000
    dirty_area,           \* Bitmap._dirty_area
    written,              \* history: coordinates written since the Bitmap was
                          \* created or its damage was last cleared
    cleared,              \* history: the Bitmap's damage was cleared at least once
    stale,                \* history: coordinates whose stored value has not
                          \* been streamed to the panel since it was written
    pc,                   \* position of each thread
    areas,                \* areas_to_refresh of the pass each thread runs
    idx,                  \* how many of those areas the pass has streamed
    wcoord,               \* the coordinate of the write in progress
    pendingShow,          \* history: a show succeeded and no pass has
                          \* begun since
    passAfterShow,        \* history: the pass of the thread is the first
                          \* one begun after a show
    sawBitmap,            \* history: the Bitmap was under the root when
                          \* the pass of the thread collected its areas
    prevCall,             \* history: time of the previous refresh call
                          \* that named a frame rate
    timed,                \* history: the last call with a target frame
                          \* rate: was it made less than a frame after the
                          \* previous call, had that call recorded its
                          \* time, and what the call did
    start_ret,            \* history: what the last start_refresh of each
                          \* thread returned
    lastCall              \* the last completed call and its outcome

sceneVars == << layers, in_group, abs, tgt, current_area, scale >>
rotVars == << rotation, width, height, transform, area >>
coreVars == << current_group, full_refresh, refresh_in_progress, last_refresh,
              rotVars >>
displayVars == << auto_refresh, first_manual_refresh, last_refresh_call >>
bitmapVars == << dirty_area, written, cleared, stale >>
threadVars == << pc, areas, idx, wcoord >>
timingVars == << prevCall, timed >>
workerVars == << refresh_thread, worker, setter_value >>
clipVars == << colorspace, clipped >>
gridVars == << tg, tileCall >>
initVars == << init_sequence, init_records, init_i, init_sent, init_slept >>
busVars == << bus_owner, bus_pc, sub_index, sub_count >>
ctorVars == << bmp >>
tileVars == << tile_x, tile_y, tile_transpose_xy >>
paletteVars == << colors >>
extraVars == << ra, group_x, group_y, tileVars, paletteVars >>
rectVars == << rect_a, rect_b, overlap_ab, overlap_ba, union_ab, clipVars,
              gridVars, initVars, busVars, ctorVars, extraVars >>
startVars == << start_ret >>
histVars == << pendingShow, passAfterShow, sawBitmap, timingVars, startVars >>
vars == << sceneVars, coreVars, displayVars, now, bitmapVars, threadVars,
          histVars, workerVars, rectVars, lastCall >>

Threads == {"fg", "bg"}

SceneOf == [in_group |-> in_group, abs |-> abs, tgt |-> tgt,
            current_area |-> current_area, scale |-> scale,
            x |-> group_x, y |-> group_y, tile_x |-> tile_x,
            tile_y |-> tile_y,
            tile_transpose_xy |-> tile_transpose_xy,
            transform |-> transform]

\* A detached Group keeps its last absolute transform, so re-attaching
\* Groups under each other compounds scales without limit; the model stops
\* at MaxAbsScale.
ScaleOk(s) == \A g \in Groups : s.abs[g].scale <= MaxAbsScale

SetScene(s) ==
    /\ ScaleOk(s)
    /\ in_group' = s.in_group
    /\ abs' = s.abs
    /\ tgt' = s.tgt
    /\ current_area' = s.current_area
    /\ scale' = s.scale

Call(op, group, node, raised, ret) ==
    [op |-> op, group |-> group, node |-> node, raised |-> raised, ret |-> ret]

\* The state right after the constructors: two empty Groups, one Bitmap,
\* one TileGrid over it, one Display with no root group.
InitScene ==
    /\ layers = [g \in Groups |-> << >>]
    /\ in_group = [n \in Nodes |-> FALSE]
    /\ abs = [g \in Groups |->
                 Transform(0, 0, GroupScale[g], GroupScale[g], GroupScale[g],
                           FALSE, FALSE, FALSE)]
    /\ tgt = [t \in TileGrids |-> "own"]
    /\ current_area = [t \in TileGrids |-> Area(0, 0, PixelWidth, PixelHeight)]
    /\ scale = GroupScale

InitCore ==
    /\ current_group = None
    /\ full_refresh = FALSE
    /\ refresh_in_progress = FALSE
    /\ last_refresh = 0
    /\ rotation = 0
    /\ width = DisplayWidth
    /\ height = DisplayHeight
    /\ transform = DisplayTransform
    /\ area = DisplayArea

InitBitmap ==
    /\ dirty_area = BitmapInitDirty
    /\ written = {}
    /\ cleared = FALSE
    /\ stale = {}

NoCoord == << -1, -1 >>

NoTimedCall == [early |-> FALSE, recorded |-> FALSE, outcome |-> "none"]

\* No _compute_overlap call has been made.
NoOverlap == [done |-> FALSE, ok |-> FALSE, rect |-> Area(0, 0, 0, 0)]

\* No _union call has been made.
NoUnion == [done |-> FALSE, rect |-> Area(0, 0, 0, 0)]

\* ColorspaceStruct, the three fields clip_area reads.
Colorspace(depth, bytes_per_cell, pixels_in_byte_share_row) ==
    [depth |-> depth, bytes_per_cell |-> bytes_per_cell,
     pixels_in_byte_share_row |-> pixels_in_byte_share_row]

\* Display.__init__, lines 67-70: the defaults color_depth = 16,
\* pixels_in_byte_share_row = True, bytes_per_cell = 1.
DefaultColorspace == Colorspace(16, 1, TRUE)

\* No clip_area call has been made.
NoClip == [done |-> FALSE, ok |-> FALSE, rect |-> Area(0, 0, 0, 0)]

\* No TileGrid has been constructed, no tile has been accessed.
NoTileGrid ==
    [made |-> FALSE, raised |-> FALSE, bitmap_width |-> 0, bitmap_height |-> 0,
     default_tile |-> 0, width |-> 0, height |-> 0,
     tile_width |-> 0, tile_height |-> 0, tiles |-> << >>]

NoRet == -1

TileCall(op, x, y, index, raised, ret) ==
    [op |-> op, x |-> x, y |-> y, index |-> index, raised |-> raised,
     ret |-> ret]

InitGrid ==
    /\ tg = NoTileGrid
    /\ tileCall = TileCall("none", 0, 0, 0, FALSE, NoRet)

\* A Display whose init sequence has been run to its end.
InitSequenceDone ==
    /\ init_sequence = << >>
    /\ init_records = << >>
    /\ init_i = 0
    /\ init_sent = << >>
    /\ init_slept = << >>

\* No call of Bitmap.__init__ has been made.
NoBitmap == [pc |-> "none", width |-> 0, height |-> 0, value_count |-> 0,
             bits |-> 0, error |-> "none", dirty_area |-> Area(0, 0, 0, 0)]

InitCtor == bmp = NoBitmap

\* No call of _refresh_area has been made.
NoRefreshArea == [pc |-> "none", clipped |-> Area(0, 0, 0, 0), rows |-> 0,
                  count |-> 0, buffer_len |-> 0, index |-> 0, sent |-> << >>,
                  error |-> "none"]

\* Palette._update_rgba, lines 38-46: the resolved value of a slot.
UpdateRgba(color) ==
    [color EXCEPT !.rgba = << color.rgb888 \div 65536,
                              (color.rgb888 \div 256) % 256,
                              color.rgb888 % 256,
                              IF color.transparent THEN 0 ELSE 255 >>]

\* Palette._make_color for an int in range, lines 48-64: a new slot, opaque
\* unless told otherwise.
MakeColor(value, transparent) ==
    [transparent |-> transparent, rgb888 |-> value, rgba |-> << 0, 0, 0, 255 >>]

\* Palette(ColorCount), lines 29-36.
ColorCount == 2
PaletteSlots == 0 .. ColorCount - 1
InitPalette == colors = [i \in PaletteSlots |-> UpdateRgba(MakeColor(0, FALSE))]

InitExtra ==
    /\ ra = NoRefreshArea
    /\ group_x = GroupX
    /\ group_y = GroupY
    /\ tile_x = [t \in TileGrids |-> TileGridX]
    /\ tile_y = [t \in TileGrids |-> TileGridY]
    /\ tile_transpose_xy = [t \in TileGrids |-> TileGridTransposeXY]
    /\ InitPalette

\* No transaction is open and no thread is in _refresh_area.
InitBus ==
    /\ bus_owner = None
    /\ bus_pc = [t \in {"fg", "bg"} |-> "idle"]
    /\ sub_index = [t \in {"fg", "bg"} |-> 0]
    /\ sub_count = [t \in {"fg", "bg"} |-> 0]

InitRects ==
    /\ InitGrid
    /\ InitSequenceDone
    /\ InitBus
    /\ InitCtor
    /\ InitExtra
    /\ colorspace = DefaultColorspace
    /\ clipped = NoClip
    /\ rect_a = Area(0, 0, 0, 0)
    /\ rect_b = Area(0, 0, 0, 0)
    /\ overlap_ab = NoOverlap
    /\ overlap_ba = NoOverlap
    /\ union_ab = NoUnion

InitThreads ==
    /\ pc = [t \in Threads |-> "idle"]
    /\ areas = [t \in Threads |-> << >>]
    /\ idx = [t \in Threads |-> 0]
    /\ wcoord = NoCoord
    /\ refresh_thread = None
    /\ worker = "off"
    /\ setter_value = FALSE
    /\ pendingShow = FALSE
    /\ passAfterShow = [t \in Threads |-> FALSE]
    /\ sawBitmap = [t \in Threads |-> FALSE]
    /\ prevCall = 0
    /\ timed = NoTimedCall
    /\ start_ret = [t \in Threads |-> "none"]

(***************************************************************************)
(* Group operations (displayio/_group.py).                                 *)
(***************************************************************************)
\* Group.insert.  A list of MaxLayers children is not grown further, and a
\* Group is not put under itself or one of its descendants.
GroupInsertAs(op, g, index, layer) ==
    /\ pc["fg"] = "idle"
    /\ index \in 0 .. Len(layers[g])
    /\ IF in_group[layer]
       THEN /\ lastCall' = Call(op, g, layer, TRUE, None)
            /\ UNCHANGED sceneVars
       ELSE /\ Len(layers[g]) < MaxLayers
            /\ g \notin DescOrSelf(layers, layer)
            /\ layers' = [layers EXCEPT ![g] = ListInsert(@, index, layer)]
            /\ SetScene(UpdateTransform(SceneOf, layers', layer, g))
            /\ lastCall' = Call(op, g, layer, FALSE, None)
    /\ UNCHANGED << coreVars, workerVars, rectVars, displayVars, now,
                    bitmapVars, threadVars, histVars >>

GroupInsert(g, index, layer) == GroupInsertAs("insert", g, index, layer)

\* Group.append
GroupAppend(g, layer) == GroupInsertAs("append", g, Len(layers[g]), layer)

\* Group.pop: _removal_cleanup detaches the layer, then it is spliced out.
GroupPop(g, index) ==
    /\ pc["fg"] = "idle"
    /\ index \in 0 .. Len(layers[g]) - 1
    /\ LET layer == layers[g][index + 1]
       IN /\ SetScene(UpdateTransform(SceneOf, layers, layer, None))
          /\ lastCall' = Call("pop", g, layer, FALSE, layer)
    /\ layers' = [layers EXCEPT ![g] = ListPop(@, index)]
    /\ UNCHANGED << coreVars, workerVars, rectVars, displayVars, now,
                    bitmapVars, threadVars, histVars >>

\* Group.remove: the first copy of the layer is spliced out; a layer that
\* is not in the list is a ValueError of list.index.
GroupRemove(g, layer) ==
    /\ pc["fg"] = "idle"
    /\ IF layer \in Range(layers[g])
       THEN /\ layers' = [layers EXCEPT ![g] = ListPop(@, ListIndex(@, layer))]
            /\ lastCall' = Call("remove", g, layer, FALSE, None)
       ELSE /\ lastCall' = Call("remove", g, layer, TRUE, None)
            /\ UNCHANGED layers
    /\ UNCHANGED << in_group, abs, tgt, current_area, scale >>
    /\ UNCHANGED << coreVars, workerVars, rectVars, displayVars, now,
                    bitmapVars, threadVars, histVars >>

\* Group.__setitem__: detach the old layer, store the new one, update it.
GroupSetItem(g, index, value) ==
    /\ pc["fg"] = "idle"
    /\ index \in 0 .. Len(layers[g]) - 1
    /\ g \notin DescOrSelf(layers, value)
    /\ layers' = [layers EXCEPT ![g] = ListSet(@, index, value)]
    /\ LET old == layers[g][index + 1]
           s1 == UpdateTransform(SceneOf, layers, old, None)
       IN SetScene(UpdateTransform(s1, layers', value, g))
    /\ lastCall' = Call("setitem", g, value, FALSE, None)
    /\ UNCHANGED << coreVars, workerVars, rectVars, displayVars, now,
                    bitmapVars, threadVars, histVars >>

\* Group.__delitem__
GroupDelItem(g, index) ==
    /\ pc["fg"] = "idle"
    /\ index \in 0 .. Len(layers[g]) - 1
    /\ layers' = [layers EXCEPT ![g] = ListPop(@, index)]
    /\ lastCall' = Call("delitem", g, layers[g][index + 1], FALSE, None)
    /\ UNCHANGED << in_group, abs, tgt, current_area, scale >>
    /\ UNCHANGED << coreVars, workerVars, rectVars, displayVars, now,
                    bitmapVars, threadVars, histVars >>

(***************************************************************************)
(* _DisplayCore.show and Display.show.                                     *)
(***************************************************************************)
CoreShowKeepsFlag(root_group) ==
    IF root_group = current_group \/ (root_group # None /\ in_group[root_group])
    THEN UNCHANGED << sceneVars, current_group, full_refresh >>
    ELSE /\ LET s2 == IF root_group # None
                      THEN [UpdateTransform(SceneOf, layers, root_group, "display")
                               EXCEPT !.in_group[root_group] = TRUE]
                      ELSE SceneOf
            IN SetScene(s2)
         /\ current_group' = root_group
         /\ full_refresh' = TRUE
         /\ UNCHANGED layers

\* _DisplayCore.show: its effect on the scene and the core.
CoreShow(root_group) ==
    IF root_group = current_group \/ (root_group # None /\ in_group[root_group])
    THEN UNCHANGED << sceneVars, current_group, full_refresh >>
    ELSE /\ LET s1 == IF current_group # None
                      THEN [SceneOf EXCEPT !.in_group[current_group] = FALSE]
                      ELSE SceneOf
                s2 == IF root_group # None
                      THEN [UpdateTransform(s1, layers, root_group, "display")
                               EXCEPT !.in_group[root_group] = TRUE]
                      ELSE s1
            IN SetScene(s2)
         /\ current_group' = root_group
         /\ full_refresh' = TRUE
         /\ UNCHANGED layers

\* Display.show: calls the core and drops its result.
DisplayShow(group) ==
    /\ pc["fg"] = "idle"
    /\ CoreShow(group)
    /\ pendingShow' = (pendingShow \/ current_group' # current_group)
    /\ lastCall' = Call("show", None, group, FALSE, None)
    /\ UNCHANGED << refresh_in_progress, last_refresh, rotVars, workerVars,
                    rectVars, displayVars, now,
                    bitmapVars, threadVars, passAfterShow, sawBitmap,
                    timingVars, startVars >>

(***************************************************************************)
(* The scene graph under single-threaded use: every Group operation and    *)
(* Display.show, with no refresh running.                                  *)
(***************************************************************************)
InitSceneSpec ==
    /\ InitScene /\ InitCore /\ InitBitmap /\ InitThreads /\ InitRects
    /\ auto_refresh = FALSE
    /\ first_manual_refresh = TRUE
    /\ last_refresh_call = 0
    /\ now = 0
    /\ lastCall = Call("init", None, None, FALSE, None)

NextScene ==
    \/ \E g \in Groups, n \in Nodes, i \in 0 .. MaxLayers : GroupInsert(g, i, n)
    \/ \E g \in Groups, n \in Nodes : GroupAppend(g, n)
    \/ \E g \in Groups, i \in 0 .. MaxLayers - 1 : GroupPop(g, i)
    \/ \E g \in Groups, n \in Nodes : GroupRemove(g, n)
    \/ \E g \in Groups, n \in Nodes, i \in 0 .. MaxLayers - 1 : GroupSetItem(g, i, n)
    \/ \E g \in Groups, i \in 0 .. MaxLayers - 1 : GroupDelItem(g, i)
    \/ \E g \in Groups \cup {None} : DisplayShow(g)

SpecScene == InitSceneSpec /\ [][NextScene]_vars

(***************************************************************************)
(* Scene graph claims.                                                     *)
(***************************************************************************)
\* The places a node occupies in the child lists of all Groups.
Places(n) == {pl \in Groups \X (1 .. MaxLayers + 1) :
                 pl[2] <= Len(layers[pl[1]]) /\ layers[pl[1]][pl[2]] = n}

IsChild(n) == Places(n) # {}

\* C6: after any sequence of Group operations and Display.show calls, every
\* Group or TileGrid is a child of at most one Group and occurs at most
\* once in that Group's child list.
C6_AtMostOnePlace == \A n \in Nodes : Cardinality(Places(n)) <= 1

\* C7: inserting or appending a node that is currently a child of some
\* Group raises an error at that call and leaves the child lists and the
\* transforms of the Groups exactly as they were.
C7_InsertAttachedRaises ==
    [][(lastCall'.op \in {"insert", "append"} /\ IsChild(lastCall'.node))
          => (lastCall'.raised /\ layers' = layers /\ abs' = abs)]_vars

\* C8: after remove(node), pop(index) or item deletion returns, the node
\* taken out is detached: its in-group flag is false.
C8_RemovedIsDetached ==
    (lastCall.op \in {"remove", "pop", "delitem"} /\ ~lastCall.raised)
        => ~in_group[lastCall.node]

\* C9: show(g) for a Group g that is attached elsewhere is reported to the
\* caller as an error and changes nothing.
C9_ShowAttachedIsError ==
    [][(lastCall'.op = "show" /\ lastCall'.node # None
            /\ lastCall'.node # current_group /\ IsChild(lastCall'.node))
          => (lastCall'.raised
                /\ UNCHANGED << sceneVars, workerVars, rectVars, current_group, full_refresh >>)]_vars

\* A show that takes the root Group off the display.
DetachesRoot(g) ==
    /\ DisplayShow(g)
    /\ current_group # None
    /\ current_group' # current_group

\* The nodes below Group g, g not included.
Descendants(g) ==
    UNION {DescOrSelf(layers, layers[g][i]) : i \in 1 .. Len(layers[g])}

\* The nodes at or below the new root.
UnderNewRoot(g) == IF g = None THEN {} ELSE DescOrSelf(layers, g)

\* C27 as stated: detaching a root Group from the display (replacing it
\* through show) clears the in-group flag of that Group and of every one of
\* its descendants.
C27_DetachClearsDescendants ==
    [][\A g \in Groups \cup {None} :
          DetachesRoot(g)
              => \A n \in {current_group} \cup Descendants(current_group) :
                    ~in_group'[n]]_vars

\* C27 as amended: such a show clears the in-group flag of the old root
\* only; its descendants are still its children and their flags are left
\* as they were (a node that is also under the new root has its flag
\* written by the new root's transform update).
C27_DetachClearsRootOnly ==
    [][\A g \in Groups \cup {None} :
          DetachesRoot(g)
              => /\ current_group \notin UnderNewRoot(g)
                     => ~in_group'[current_group]
                 /\ \A n \in Descendants(current_group) \ UnderNewRoot(g) :
                       in_group'[n] = in_group[n]
                 /\ layers' = layers]_vars

\* The root g1 with its child g2 has been taken off the display: g1 is no
\* longer in a group, g2 still is.
C27_Witness ==
    /\ lastCall = Call("show", None, None, FALSE, None)
    /\ current_group = None
    /\ layers["g1"] = << "g2" >>
    /\ ~in_group["g1"]
    /\ in_group["g2"]

(***************************************************************************)
(* Bitmap writes.                                                          *)
(***************************************************************************)
\* Bitmap.__setitem__ with an (x, y) index, run without interruption:
\* putpixel, then the damage update.
BitmapSetItem(x, y) ==
    /\ pc["fg"] = "idle"
    /\ stale' = stale \cup {<< x, y >>}
    /\ dirty_area' = SetItemDirty(dirty_area, x, y)
    /\ written' = written \cup {<< x, y >>}
    /\ lastCall' = Call("setpixel", None, None, FALSE, None)
    /\ UNCHANGED << sceneVars, workerVars, rectVars, coreVars, displayVars, now, cleared, threadVars,
                    histVars >>

\* Bitmap.__setitem__ with an int index: x = index % width, y = index // width.
BitmapSetItemInt(index) == BitmapSetItem(index % BmpW, index \div BmpW)

\* The same write as two steps of the calling thread, for the runs in which
\* the background thread refreshes at the same time: line 99 (putpixel) ...
WritePixel(x, y) ==
    /\ pc["fg"] = "idle"
    /\ pc' = [pc EXCEPT !["fg"] = "wdirty"]
    /\ wcoord' = << x, y >>
    /\ stale' = stale \cup {<< x, y >>}
    /\ UNCHANGED << sceneVars, workerVars, rectVars, coreVars, displayVars, now, dirty_area, written,
                    cleared, areas, idx, histVars, lastCall >>

\* ... and lines 100-113 (the damage update).
WriteDirty ==
    /\ pc["fg"] = "wdirty"
    /\ pc' = [pc EXCEPT !["fg"] = "idle"]
    /\ dirty_area' = SetItemDirty(dirty_area, wcoord[1], wcoord[2])
    /\ written' = written \cup {wcoord}
    /\ wcoord' = NoCoord
    /\ lastCall' = Call("setpixel", None, None, FALSE, None)
    /\ UNCHANGED << sceneVars, workerVars, rectVars, coreVars, displayVars, now, stale, cleared,
                    areas, idx, histVars >>

\* Area._canon.
AreaCanon(a) ==
    Area(Min(a.x1, a.x2), Min(a.y1, a.y2), Max(a.x1, a.x2), Max(a.y1, a.y2))

\* The region dirty() is asked to mark: -1 for x2 or y2 stands for the width
\* or the height.
DirtyRequest(x1, y1, x2, y2) ==
    Area(x1, y1, IF x2 = -1 THEN BmpW ELSE x2, IF y2 = -1 THEN BmpH ELSE y2)

\* The rectangle Bitmap.dirty leaves in _dirty_area: the request is put in
\* canonical form, united with the dirty area into itself, and its overlap
\* with the bitmap is written into the dirty area.  canon, union and
\* compute_overlap are Area._canon, Area._union and Area._compute_overlap.
DirtyArea(d, x1, y1, x2, y2) ==
    LET request == AreaCanon(DirtyRequest(x1, y1, x2, y2))
        united == AreaUnion(request, d)
    IN ComputeOverlap(united, Area(0, 0, BmpW, BmpH), d)

\* Bitmap.dirty(x1, y1, x2, y2).
BitmapDirty(x1, y1, x2, y2) ==
    /\ pc["fg"] = "idle"
    /\ dirty_area' = DirtyArea(dirty_area, x1, y1, x2, y2)
    /\ lastCall' = Call("dirty", None, None, FALSE, None)
    /\ UNCHANGED << sceneVars, workerVars, rectVars, coreVars, displayVars, now, written, stale,
                    cleared, threadVars, histVars >>

(***************************************************************************)
(* Damage collection through the scene graph.  Group._get_refresh_areas,   *)
(* TileGrid._get_refresh_areas and TileGrid._finish_refresh are called by  *)
(* the sources but their files are not among them; they follow the         *)
(* specification's collectDamage / finishRefresh.                          *)
(***************************************************************************)
AreaScale(a, k) == Area(a.x1 * k, a.y1 * k, a.x2 * k, a.y2 * k)
AreaShift(a, dx, dy) == Area(a.x1 + dx, a.y1 + dy, a.x2 + dx, a.y2 + dy)

\* TileGrid collectDamage: when the backing Bitmap has pending damage, the
\* damaged sub-rectangle in device space.
TileGridGetRefreshAreas(t) ==
    LET sub == BitmapGetRefreshAreas(dirty_area)
        k == IF tgt[t] \in Groups THEN abs[tgt[t]].scale ELSE 1
    IN IF sub = << >> THEN << >>
       ELSE << AreaShift(AreaScale(sub[1], k),
                         current_area[t].x1, current_area[t].y1) >>

\* Group collectDamage: every child contributes, in order.
RECURSIVE GroupGetRefreshAreas(_)
RECURSIVE LayersGetRefreshAreas(_)
GroupGetRefreshAreas(n) ==
    IF n \in TileGrids THEN TileGridGetRefreshAreas(n)
    ELSE LayersGetRefreshAreas(layers[n])

LayersGetRefreshAreas(seq) ==
    IF seq = << >> THEN << >>
    ELSE GroupGetRefreshAreas(Head(seq)) \o LayersGetRefreshAreas(Tail(seq))

\* Group._finish_refresh reaches the Bitmap of every TileGrid under the root.
BitmapUnderRoot ==
    /\ current_group # None
    /\ \E t \in TileGrids : t \in DescOrSelf(layers, current_group)

\* The bitmap coordinates whose device pixels all lie in a streamed area.
DevicePixels(t, c) ==
    LET k == IF tgt[t] \in Groups THEN abs[tgt[t]].scale ELSE 1
    IN {<< current_area[t].x1 + c[1] * k + i, current_area[t].y1 + c[2] * k + j >> :
           i \in 0 .. k - 1, j \in 0 .. k - 1}

Streamed(a) ==
    IF BitmapUnderRoot
    THEN {c \in Coords : \E t \in TileGrids :
             \A px \in DevicePixels(t, c) : Covers(a, px)}
    ELSE {}

(***************************************************************************)
(* The refresh pass (displayio/_display.py, displayio/_displaycore.py),    *)
(* one step per place where another thread can run in between.             *)
(***************************************************************************)
NativeMsPerFrame == 1000 \div NativeFramesPerSecond

\* Display._get_refresh_areas
GetRefreshAreas ==
    IF full_refresh THEN << area >>
    ELSE IF current_group # None THEN GroupGetRefreshAreas(current_group)
    ELSE << >>

\* Display.refresh() with no frame-rate arguments: no timing test, straight
\* into _refresh_display.
RefreshCall ==
    /\ pc["fg"] = "idle"
    /\ pc' = [pc EXCEPT !["fg"] = "start"]
    /\ first_manual_refresh' = FALSE
    /\ UNCHANGED << sceneVars, workerVars, rectVars, coreVars, auto_refresh, last_refresh_call, now,
                    bitmapVars, areas, idx, wcoord, histVars, lastCall >>

\* Display.background, called by the loop of _background: refresh() when
\* auto-refresh is on and the last refresh is older than a native frame.
Background ==
    /\ pc["bg"] = "idle"
    /\ auto_refresh
    /\ now - last_refresh > NativeMsPerFrame
    /\ pc' = [pc EXCEPT !["bg"] = "start"]
    /\ first_manual_refresh' = FALSE
    /\ UNCHANGED << sceneVars, workerVars, rectVars, coreVars, auto_refresh, last_refresh_call, now,
                    bitmapVars, areas, idx, wcoord, histVars, lastCall >>

Returned(t, ret) ==
    IF t = "fg" THEN lastCall' = Call("refresh", None, None, FALSE, ret)
    ELSE UNCHANGED lastCall

\* _DisplayCore.start_refresh, line 223: the test of refresh_in_progress.
\* When it is set the pass is skipped; Display.refresh still returns True.
StartRefreshTest(t) ==
    /\ pc[t] = "start"
    /\ IF refresh_in_progress
       THEN /\ pc' = [pc EXCEPT ![t] = "idle"]
            /\ start_ret' = [start_ret EXCEPT ![t] = "false"]
            /\ Returned(t, TRUE)
       ELSE /\ pc' = [pc EXCEPT ![t] = "set"]
            /\ UNCHANGED << start_ret, lastCall >>
    /\ UNCHANGED << sceneVars, workerVars, rectVars, coreVars, displayVars, now, bitmapVars, areas,
                    idx, wcoord, pendingShow, passAfterShow, sawBitmap,
                    timingVars >>

\* _DisplayCore.start_refresh, lines 226-227: set the flag, stamp the time.
StartRefreshSet(t) ==
    /\ pc[t] = "set"
    /\ pc' = [pc EXCEPT ![t] = "collect"]
    /\ refresh_in_progress' = TRUE
    /\ last_refresh' = now
    /\ passAfterShow' = [passAfterShow EXCEPT ![t] = pendingShow]
    /\ pendingShow' = FALSE
    /\ start_ret' = [start_ret EXCEPT ![t] = "true"]
    /\ UNCHANGED << sceneVars, workerVars, rectVars, current_group,
                    full_refresh, rotVars, displayVars, now, bitmapVars,
                    areas, idx, wcoord, sawBitmap, timingVars, lastCall >>

\* Display._refresh_display, line 309: areas_to_refresh.
CollectAreas(t) ==
    /\ pc[t] = "collect"
    /\ pc' = [pc EXCEPT ![t] = "stream"]
    /\ areas' = [areas EXCEPT ![t] = GetRefreshAreas]
    /\ idx' = [idx EXCEPT ![t] = 0]
    /\ sawBitmap' = [sawBitmap EXCEPT ![t] = BitmapUnderRoot]
    /\ UNCHANGED << sceneVars, workerVars, rectVars, coreVars, displayVars, now, bitmapVars, wcoord,
                    pendingShow, passAfterShow, timingVars, startVars,
                    lastCall >>

\* Display._refresh_area for the next area of the list: clip it to the
\* device, address the window, fill the buffer from the scene and send it.
RefreshArea(t) ==
    /\ pc[t] = "stream"
    /\ idx[t] < Len(areas[t])
    /\ idx' = [idx EXCEPT ![t] = @ + 1]
    /\ LET a == areas[t][idx[t] + 1]
       IN stale' = IF ComputeOverlapOk(area, a)
                   THEN stale \ Streamed(ComputeOverlap(area, a, Area(0, 0, 0, 0)))
                   ELSE stale
    /\ UNCHANGED << sceneVars, workerVars, rectVars, coreVars, displayVars, now, dirty_area, written,
                    cleared, pc, areas, wcoord, histVars, lastCall >>

\* _DisplayCore.finish_refresh, then Display.refresh returns True.
FinishRefresh(t) ==
    /\ pc[t] = "stream"
    /\ idx[t] = Len(areas[t])
    /\ pc' = [pc EXCEPT ![t] = "idle"]
    /\ IF BitmapUnderRoot
       THEN /\ dirty_area' = BitmapFinishRefresh(dirty_area)
            /\ written' = {}
            /\ cleared' = TRUE
       ELSE UNCHANGED << dirty_area, written, cleared >>
    /\ full_refresh' = FALSE
    /\ refresh_in_progress' = FALSE
    /\ last_refresh' = now
    /\ Returned(t, TRUE)
    /\ UNCHANGED << sceneVars, workerVars, rectVars, current_group, rotVars,
                    displayVars, now, stale, areas, idx, wcoord, histVars >>

\* time.monotonic() advances.
Tick(limit) ==
    /\ now < limit
    /\ now' = now + 1
    /\ UNCHANGED << sceneVars, workerVars, rectVars, coreVars, displayVars, bitmapVars, threadVars,
                    histVars, lastCall >>

(***************************************************************************)
(* Damage tracking under single-threaded use: one thread builds the scene, *)
(* writes pixels and calls refresh(); auto-refresh is off.                 *)
(***************************************************************************)
InitDamage ==
    /\ InitScene /\ InitCore /\ InitBitmap /\ InitThreads /\ InitRects
    /\ auto_refresh = FALSE
    /\ first_manual_refresh = TRUE
    /\ last_refresh_call = 0
    /\ now = 0
    /\ lastCall = Call("init", None, None, FALSE, None)

\* The writes of these runs: the diagonal and the top right corner by (x, y),
\* the top left and the bottom left corner by int index.
DamageCoords == {c \in Coords : c[1] = c[2]} \cup {<< BmpW - 1, 0 >>}
DamageIndexes == {0, BmpW * (BmpH - 1)}

NextDamage ==
    \/ GroupAppend("g1", "t1")
    \/ GroupPop("g1", 0)
    \/ \E g \in {"g1", None} : DisplayShow(g)
    \/ \E c \in DamageCoords : BitmapSetItem(c[1], c[2])
    \/ \E i \in DamageIndexes : BitmapSetItemInt(i)
    \/ RefreshCall
    \/ StartRefreshTest("fg")
    \/ StartRefreshSet("fg")
    \/ CollectAreas("fg")
    \/ RefreshArea("fg")
    \/ FinishRefresh("fg")

SpecDamage == InitDamage /\ [][NextDamage]_vars

\* The same runs with calls of Bitmap.dirty among the writes.
DirtyLows == {0, 1}
DirtyHighs == {-1, 0}

NextDirty ==
    \/ GroupAppend("g1", "t1")
    \/ DisplayShow("g1")
    \/ BitmapSetItem(0, 0)
    \/ RefreshCall
    \/ StartRefreshTest("fg")
    \/ StartRefreshSet("fg")
    \/ CollectAreas("fg")
    \/ RefreshArea("fg")
    \/ FinishRefresh("fg")
    \/ \E x1 \in DirtyLows, y1 \in DirtyLows, x2 \in DirtyHighs, y2 \in DirtyHighs :
          BitmapDirty(x1, y1, x2, y2)

SpecDirty == InitDamage /\ [][NextDirty]_vars

\* The damage of the Bitmap: nothing when x1 = x2 (the test of
\* _get_refresh_areas), the pixels of the rectangle otherwise.
Damaged(d, px) == d.x1 # d.x2 /\ Covers(d, px)

\* C28: after Bitmap.dirty(x1, y1, x2, y2) the dirty area contains the given
\* region clipped to the bitmap bounds and everything that was dirty before
\* the call, whether or not the Bitmap had damage pending.
C28_DirtyAddsRegion ==
    [][\A x1 \in DirtyLows, y1 \in DirtyLows, x2 \in DirtyHighs, y2 \in DirtyHighs :
          BitmapDirty(x1, y1, x2, y2)
              => \A px \in Coords :
                    (\/ Covers(AreaCanon(DirtyRequest(x1, y1, x2, y2)), px)
                     \/ Damaged(dirty_area, px))
                        => Damaged(dirty_area', px)]_vars

\* C3: starting from a Bitmap whose dirty area is empty, any sequence of
\* in-range indexed writes leaves the dirty area equal to the minimal
\* bounding rectangle of the written coordinates, and finish_refresh makes
\* the dirty area empty again.
C3_DirtyIsBoundingBox ==
    cleared => IF written = {}
               THEN dirty_area.x1 = dirty_area.x2
               ELSE dirty_area = BBox(written)

C3_Witness ==
    /\ cleared
    /\ written = {<< 0, 0 >>, << 1, 1 >>}
    /\ dirty_area = Area(0, 0, 2, 2)

\* The case of C4: full_refresh false, the root Group holds exactly the
\* TileGrid, unscaled and at the origin, and pixels have been written.
C4_Case ==
    /\ pc["fg"] = "idle"
    /\ ~full_refresh
    /\ current_group = "g1"
    /\ layers["g1"] = << "t1" >>
    /\ abs["g1"] = IdentityTransform
    /\ current_area["t1"] = Area(0, 0, BmpW, BmpH)
    /\ written # {}

\* C4 as stated: getRefreshAreas then returns exactly one area, the
\* bounding rectangle of the pixels written since the Bitmap was created or
\* last refreshed.
C4_AreasAreWrittenBox == C4_Case => GetRefreshAreas = << BBox(written) >>

\* C4 as amended: the bounding rectangle of the pixels written since the
\* Bitmap was last refreshed, and the whole bitmap for a Bitmap that has
\* not been refreshed since it was created.
C4_AreasAreWrittenBoxOrWhole ==
    C4_Case => GetRefreshAreas =
                 << IF cleared THEN BBox(written) ELSE Area(0, 0, BmpW, BmpH) >>

C4_Witness ==
    /\ C4_Case
    /\ cleared
    /\ GetRefreshAreas = << Area(1, 1, 2, 2) >>

(***************************************************************************)
(* The refresh engine with the background thread: the foreground thread    *)
(* builds the scene, writes pixels and calls refresh() while _background   *)
(* refreshes on its own.                                                   *)
(***************************************************************************)
\* The coordinates the foreground thread writes in these runs: two opposite
\* corners of the bitmap.
RaceCoords == {<< 0, 0 >>, << BmpW - 1, BmpH - 1 >>}

Init ==
    /\ InitScene /\ InitCore /\ InitBitmap /\ InitThreads /\ InitRects
    /\ auto_refresh = TRUE
    /\ first_manual_refresh = FALSE
    /\ last_refresh_call = 0
    /\ now = 0
    /\ lastCall = Call("init", None, None, FALSE, None)

Next ==
    \/ GroupAppend("g1", "t1")
    \/ \E g \in {"g1", None} : DisplayShow(g)
    \/ \E c \in RaceCoords : WritePixel(c[1], c[2])
    \/ WriteDirty
    \/ RefreshCall
    \/ Background
    \/ \E t \in Threads : StartRefreshTest(t)
    \/ \E t \in Threads : StartRefreshSet(t)
    \/ \E t \in Threads : CollectAreas(t)
    \/ \E t \in Threads : RefreshArea(t)
    \/ \E t \in Threads : FinishRefresh(t)
    \/ Tick(RaceMaxTime)

Spec == Init /\ [][Next]_vars

\* A thread is inside a pass: start_refresh succeeded and finish_refresh
\* has not run yet.
InPass(t) == pc[t] \in {"collect", "stream"}

\* C30: start_refresh called while refresh_in_progress is true returns false
\* and changes neither the flag, the last_refresh stamp, full_refresh nor any
\* damage; called while it is false it sets the flag, stamps last_refresh
\* and returns true; finish_refresh clears refresh_in_progress and
\* full_refresh and leaves every Bitmap under the root Group with empty
\* damage.
C30_StartAndFinishRefresh ==
    [][\A t \in Threads :
          /\ (StartRefreshTest(t) /\ refresh_in_progress)
                 => /\ start_ret'[t] = "false"
                    /\ ~InPass(t)'
                    /\ UNCHANGED << refresh_in_progress, last_refresh,
                                    full_refresh, dirty_area >>
          /\ (StartRefreshTest(t) /\ ~refresh_in_progress)
                 => /\ pc'[t] = "set"
                    /\ UNCHANGED << last_refresh, full_refresh, dirty_area >>
          /\ StartRefreshSet(t)
                 => /\ refresh_in_progress'
                    /\ last_refresh' = now
                    /\ start_ret'[t] = "true"
                    /\ InPass(t)'
          /\ FinishRefresh(t)
                 => /\ ~refresh_in_progress'
                    /\ ~full_refresh'
                    /\ BitmapUnderRoot
                          => BitmapGetRefreshAreas(dirty_area') = << >>]_vars

\* The manual refresh found a pass of the background thread under way (its
\* start_refresh returned false), and that pass, whose start_refresh
\* returned true, has since finished over the shown Bitmap.
C30_Witness ==
    /\ start_ret["fg"] = "false"
    /\ start_ret["bg"] = "true"
    /\ pc = [t \in Threads |-> "idle"]
    /\ BitmapUnderRoot
    /\ cleared
    /\ dirty_area.x1 = dirty_area.x2
    /\ ~refresh_in_progress
    /\ ~full_refresh

\* C1: the refresh passes of the manual refresh and of the background
\* auto-refresh never overlap: the two threads are never both between a
\* successful start_refresh and the matching finish_refresh.
C1_PassesNeverOverlap == ~(InPass("fg") /\ InPass("bg"))

\* C2: a pixel write that interleaves with a refresh pass is never lost:
\* once the finish_refresh of a pass that collected the Bitmap's damage has
\* run, every coordinate whose written value has not been streamed since
\* the write is still covered by the Bitmap's dirty area (a write whose
\* damage update is still to come is left out).
C2_WriteNeverLost ==
    [][\A t \in Threads :
          (pc[t] = "stream" /\ pc'[t] = "idle" /\ sawBitmap[t])
              => \A c \in stale' \ {wcoord'} : Covers(dirty_area', c)]_vars

\* C5: the first pass begun after a successful show refreshes exactly the
\* single full-device area, also when the show is called while another
\* pass is in progress.
C5_FirstPassAfterShowIsFull ==
    \A t \in Threads :
        (pc[t] = "stream" /\ passAfterShow[t]) => areas[t] = << DisplayArea >>

(***************************************************************************)
(* Frame pacing of manual refreshes (Display.refresh with a target frame   *)
(* rate, displayio/_display.py lines 262-291): one thread, auto-refresh    *)
(* off, time in whole milliseconds.                                        *)
(***************************************************************************)
\* The frame rates the calls name: 4 ms and 2 ms per frame; a minimum of 0
\* disables the minimum-rate test, 200 allows 5 ms per real frame.
TargetFps == {250, 500}
MinimumFps == {0, 200}

\* time.monotonic() * 1000 when the program starts: the clock does not
\* start at the 0 that _last_refresh_call and last_refresh are set to.
BootTime == 5
TimingEnd == BootTime + MaxTime

\* Line 269.
TargetMsPerFrame(F) == 1000 \div F

\* Lines 262-264 and 278: with a minimum of 0 the limit is 0xFFFFFFFF ms,
\* which no elapsed time of these runs exceeds.
BelowMinimumFrameRate(since_real_refresh, M) ==
    M > 0 /\ since_real_refresh > 1000 \div M

SkipFrameEarly(since_last_call, target_ms_per_frame) ==
    since_last_call < target_ms_per_frame

\* Line 282: the call comes too late for the target frame rate.
SkipFrame(since_last_call, target_ms_per_frame) ==
    since_last_call > target_ms_per_frame

\* Lines 285-287.
RemainingTime(since_real_refresh, target_ms_per_frame) ==
    target_ms_per_frame - (since_real_refresh % target_ms_per_frame)

\* Display.refresh(target_frames_per_second=F, minimum_frames_per_second=M)
\* up to the call of _refresh_display.
ManualRefresh(F, M) ==
    /\ pc["fg"] = "idle"
    /\ LET timedCall == ~auto_refresh /\ ~first_manual_refresh
           target == TargetMsPerFrame(F)
           since_real == now - last_refresh
           since_call == now - last_refresh_call
           remaining == RemainingTime(since_real, target)
           seen(o) == [early |-> now - prevCall < target,
                       recorded |-> last_refresh_call = prevCall,
                       outcome |-> o]
       IN /\ prevCall' = now
          /\ IF timedCall /\ BelowMinimumFrameRate(since_real, M)
             THEN /\ timed' = seen("raise")
                  /\ lastCall' = Call("refresh", None, None, TRUE, None)
                  /\ UNCHANGED << displayVars, now, pc >>
             ELSE IF timedCall /\ SkipFrame(since_call, target)
             THEN /\ timed' = seen("false")
                  /\ last_refresh_call' = now
                  /\ lastCall' = Call("refresh", None, None, FALSE, FALSE)
                  /\ UNCHANGED << auto_refresh, first_manual_refresh, now, pc >>
             ELSE /\ timed' = seen("pass")
                  /\ IF timedCall
                     THEN /\ now + remaining <= TimingEnd
                          /\ last_refresh_call' = now
                          /\ now' = now + remaining
                     ELSE UNCHANGED << last_refresh_call, now >>
                  /\ first_manual_refresh' = FALSE
                  /\ pc' = [pc EXCEPT !["fg"] = "start"]
                  /\ UNCHANGED << auto_refresh, lastCall >>
    /\ UNCHANGED << sceneVars, workerVars, rectVars, coreVars, bitmapVars, areas, idx, wcoord,
                    pendingShow, passAfterShow, sawBitmap, startVars >>

\* Display.refresh(minimum_frames_per_second=M) with no target frame rate:
\* target_ms_per_frame is 0xFFFFFFFF (line 267), so the test of line 274
\* fails and the limit computed from M in lines 262-264 is never looked at.
RefreshMinimum(M) ==
    /\ pc["fg"] = "idle"
    /\ prevCall' = now
    /\ first_manual_refresh' = FALSE
    /\ pc' = [pc EXCEPT !["fg"] = "start"]
    /\ UNCHANGED << sceneVars, workerVars, rectVars, coreVars, auto_refresh, last_refresh_call, now,
                    bitmapVars, areas, idx, wcoord, pendingShow,
                    passAfterShow, sawBitmap, timed, startVars, lastCall >>

InitTiming ==
    /\ InitScene /\ InitCore /\ InitBitmap /\ InitThreads /\ InitRects
    /\ auto_refresh = FALSE
    /\ first_manual_refresh = TRUE
    /\ last_refresh_call = 0
    /\ now = BootTime
    /\ lastCall = Call("init", None, None, FALSE, None)

NextTiming ==
    \/ GroupAppend("g1", "t1")
    \/ DisplayShow("g1")
    \/ BitmapSetItem(0, 0)
    \/ \E F \in TargetFps, M \in MinimumFps : ManualRefresh(F, M)
    \/ \E M \in MinimumFps : RefreshMinimum(M)
    \/ StartRefreshTest("fg")
    \/ StartRefreshSet("fg")
    \/ CollectAreas("fg")
    \/ RefreshArea("fg")
    \/ FinishRefresh("fg")
    \/ Tick(TimingEnd)

SpecTiming == InitTiming /\ [][NextTiming]_vars

\* A second or later manual refresh that names a target frame rate and
\* does not raise.
C10_Call(F, M) ==
    /\ ManualRefresh(F, M)
    /\ ~auto_refresh
    /\ ~first_manual_refresh
    /\ timed'.outcome # "raise"

C11_PacedByPreviousCall ==
    [][\A F \in TargetFps :
          (ManualRefresh(F, 0) /\ ~auto_refresh /\ ~first_manual_refresh)
              => IF now - prevCall > TargetMsPerFrame(F)
                 THEN /\ timed'.outcome = "false"
                      /\ pc'["fg"] = "idle"
                      /\ stale' = stale
                      /\ last_refresh' = last_refresh
                 ELSE /\ timed'.outcome = "pass"
                      /\ pc'["fg"] = "start"]_vars

\* C12: with auto-refresh off and a minimum frame rate M > 0, a refresh call
\* made more than 1000 / M ms after the last real refresh raises, whatever
\* the target frame rate, none included.
C12_BelowMinimumRaises ==
    [][\A M \in MinimumFps \ {0} :
          (/\ RefreshMinimum(M) \/ \E F \in TargetFps : ManualRefresh(F, M)
           /\ ~auto_refresh
           /\ ~first_manual_refresh
           /\ now - last_refresh > 1000 \div M)
              => /\ pc'["fg"] = "idle"
                 /\ lastCall' = Call("refresh", None, None, TRUE, None)]_vars

\* C13: Display.refresh returns False whenever its pass did not run because
\* a refresh was already in progress: a call that finds refresh_in_progress
\* set in start_refresh comes back with False.
C13_SkippedPassReturnsFalse ==
    [][(pc["fg"] = "start" /\ refresh_in_progress /\ pc'["fg"] = "idle")
          => lastCall' = Call("refresh", None, None, FALSE, FALSE)]_vars

(***************************************************************************)
(* Area._compute_overlap on its own: two canonical rectangles with corners *)
(* in 0 .. MaxCoord, intersected in both orders into a fresh Area().       *)
(***************************************************************************)
CanonicalAreas ==
    {Area(x1, y1, x2, y2) : x1 \in 0 .. MaxCoord, y1 \in 0 .. MaxCoord,
                            x2 \in 0 .. MaxCoord, y2 \in 0 .. MaxCoord}
        \ {r \in [x1 : 0 .. MaxCoord, y1 : 0 .. MaxCoord,
                  x2 : 0 .. MaxCoord, y2 : 0 .. MaxCoord] :
              r.x1 > r.x2 \/ r.y1 > r.y2}

\* a._compute_overlap(b, Area()) and b._compute_overlap(a, Area()).
AreaComputeOverlap ==
    /\ pc["fg"] = "idle"
    /\ ~overlap_ab.done
    /\ overlap_ab' = [done |-> TRUE, ok |-> ComputeOverlapOk(rect_a, rect_b),
                      rect |-> ComputeOverlap(rect_a, rect_b, Area(0, 0, 0, 0))]
    /\ overlap_ba' = [done |-> TRUE, ok |-> ComputeOverlapOk(rect_b, rect_a),
                      rect |-> ComputeOverlap(rect_b, rect_a, Area(0, 0, 0, 0))]
    /\ UNCHANGED << sceneVars, coreVars, displayVars, now, bitmapVars,
                    threadVars, histVars, workerVars, rect_a, rect_b,
                    union_ab, clipVars, gridVars, initVars, busVars, ctorVars, extraVars,
                    lastCall >>

\* a._union(b, Area()): the rectangle left in the fresh Area.
AreaUnionCall ==
    /\ pc["fg"] = "idle"
    /\ ~union_ab.done
    /\ union_ab' = [done |-> TRUE, rect |-> AreaUnion(rect_a, rect_b)]
    /\ UNCHANGED << sceneVars, coreVars, displayVars, now, bitmapVars,
                    threadVars, histVars, workerVars, rect_a, rect_b,
                    overlap_ab, overlap_ba, clipVars, gridVars, initVars,
                    busVars, ctorVars, extraVars, lastCall >>

InitArea ==
    /\ InitScene /\ InitCore /\ InitBitmap /\ InitThreads
    /\ auto_refresh = FALSE
    /\ first_manual_refresh = TRUE
    /\ last_refresh_call = 0
    /\ now = 0
    /\ lastCall = Call("init", None, None, FALSE, None)
    /\ rect_a \in CanonicalAreas
    /\ rect_b \in CanonicalAreas
    /\ overlap_ab = NoOverlap
    /\ overlap_ba = NoOverlap
    /\ union_ab = NoUnion
    /\ colorspace = DefaultColorspace
    /\ clipped = NoClip
    /\ InitGrid
    /\ InitSequenceDone
    /\ InitBus
    /\ InitCtor
    /\ InitExtra

NextArea ==
    \/ AreaComputeOverlap
    \/ AreaUnionCall

SpecArea == InitArea /\ [][NextArea]_vars

\* The pixels of the plane both rectangles cover.
CommonPixels ==
    {px \in (0 .. MaxCoord) \X (0 .. MaxCoord) :
        Covers(rect_a, px) /\ Covers(rect_b, px)}

\* C20: for canonical rectangles A and B, overlap(A, B) and overlap(B, A)
\* give the same answer and the same rectangle; the answer is "no overlap"
\* exactly when A and B share no pixel, that is when they fail to intersect
\* with positive extent on some axis; otherwise the rectangle is the
\* per-axis intersection.
C20_OverlapSymmetric ==
    overlap_ab.done =>
        /\ overlap_ab = overlap_ba
        /\ overlap_ab.ok <=> CommonPixels # {}
        /\ overlap_ab.ok <=>
              /\ \E x \in 0 .. MaxCoord :
                    rect_a.x1 <= x /\ x < rect_a.x2 /\ rect_b.x1 <= x /\ x < rect_b.x2
              /\ \E y \in 0 .. MaxCoord :
                    rect_a.y1 <= y /\ y < rect_a.y2 /\ rect_b.y1 <= y /\ y < rect_b.y2
        /\ overlap_ab.ok =>
              /\ overlap_ab.rect = BBox(CommonPixels)
              /\ \A px \in (0 .. MaxCoord) \X (0 .. MaxCoord) :
                    Covers(overlap_ab.rect, px) <=> px \in CommonPixels

C20_Witness ==
    /\ overlap_ab.done
    /\ overlap_ab.ok
    /\ rect_a = Area(0, 0, 2, 2)
    /\ rect_b = Area(1, 1, 2, 2)
    /\ overlap_ba.rect = Area(1, 1, 2, 2)

\* C21: for canonical rectangles A and B, union(A, B) is a rectangle that
\* contains both A and B; when one operand is empty the result is the other
\* operand unchanged (read for exactly one empty operand).
C21_UnionContainsBoth ==
    union_ab.done =>
        /\ \A px \in (0 .. MaxCoord) \X (0 .. MaxCoord) :
              (Covers(rect_a, px) \/ Covers(rect_b, px)) => Covers(union_ab.rect, px)
        /\ (AreaEmpty(rect_a) /\ ~AreaEmpty(rect_b)) => union_ab.rect = rect_b
        /\ (AreaEmpty(rect_b) /\ ~AreaEmpty(rect_a)) => union_ab.rect = rect_a

(***************************************************************************)
(* _DisplayCore.clip_area on its own: displays of every colour depth and   *)
(* packing, asked to clip a canonical rectangle with corners up to         *)
(* ClipMargin outside the device area into a fresh Area().                 *)
(***************************************************************************)
ColorDepths == {1, 2, 4, 16}
BytesPerCell == {1, 2}

\* Lines 285-287.
PixelsPerByte(cs) == (8 \div cs.depth) * cs.bytes_per_cell

AlignDownKeep(v, n) == v

\* Lines 289-290 and 294-295: the lower bound moves down to a multiple of n.
AlignDown(v, n) == IF v % n # 0 THEN v - (v % n) ELSE v

\* Lines 291-292 and 296-297: the upper bound moves up to a multiple of n.
AlignUp(v, n) == IF v % n # 0 THEN v + (n - (v % n)) ELSE v

\* clip_area, lines 284-297, on the overlap o that line 279 left in clipped.
ClipExpand(cs, o) ==
    IF cs.depth < 8
    THEN LET n == PixelsPerByte(cs)
         IN IF cs.pixels_in_byte_share_row
            THEN [o EXCEPT !.x1 = AlignDown(o.x1, n), !.x2 = AlignUp(o.x2, n)]
            ELSE [o EXCEPT !.y1 = AlignDown(o.y1, n), !.y2 = AlignUp(o.y2, n)]
    ELSE o

\* clip_area(a, clipped): the boolean result and the rectangle left in
\* clipped.
ClipAreaOk(dev, a) == ComputeOverlapOk(dev, a)

ClipArea(dev, cs, a, clipped_in) ==
    LET o == ComputeOverlap(dev, a, clipped_in)
    IN IF ComputeOverlapOk(dev, a) THEN ClipExpand(cs, o) ELSE o

ClipXs == (0 - ClipMargin) .. (DisplayWidth + ClipMargin)
ClipYs == (0 - ClipMargin) .. (DisplayHeight + ClipMargin)

ClipRequests ==
    {r \in [x1 : ClipXs, y1 : ClipYs, x2 : ClipXs, y2 : ClipYs] :
        r.x1 <= r.x2 /\ r.y1 <= r.y2}

ClipAreaCall ==
    /\ pc["fg"] = "idle"
    /\ ~clipped.done
    /\ clipped' = [done |-> TRUE, ok |-> ClipAreaOk(area, rect_a),
                   rect |-> ClipArea(area, colorspace, rect_a, Area(0, 0, 0, 0))]
    /\ UNCHANGED << sceneVars, coreVars, displayVars, now, bitmapVars,
                    threadVars, histVars, workerVars, rect_a, rect_b,
                    overlap_ab, overlap_ba, union_ab, colorspace, gridVars,
                    initVars, busVars, ctorVars, extraVars, lastCall >>

InitClip ==
    /\ InitScene /\ InitCore /\ InitBitmap /\ InitThreads
    /\ auto_refresh = FALSE
    /\ first_manual_refresh = TRUE
    /\ last_refresh_call = 0
    /\ now = 0
    /\ lastCall = Call("init", None, None, FALSE, None)
    /\ colorspace \in {Colorspace(d, b, s) :
                          d \in ColorDepths, b \in BytesPerCell, s \in BOOLEAN}
    /\ rect_a \in ClipRequests
    /\ rect_b = Area(0, 0, 0, 0)
    /\ overlap_ab = NoOverlap
    /\ overlap_ba = NoOverlap
    /\ union_ab = NoUnion
    /\ clipped = NoClip
    /\ InitGrid
    /\ InitSequenceDone
    /\ InitBus
    /\ InitCtor
    /\ InitExtra

NextClip == ClipAreaCall

SpecClip == InitClip /\ [][NextClip]_vars

\* The pixels of the requested rectangle that lie on the device.
ClipPixels == {px \in ClipXs \X ClipYs : Covers(area, px) /\ Covers(rect_a, px)}

\* lo .. hi moved outward to the nearest multiples of n gives l .. h.
MovedOutward(lo, hi, l, h, n) ==
    /\ l % n = 0 /\ h % n = 0
    /\ l <= lo /\ lo - l < n
    /\ hi <= h /\ h - hi < n

\* What clip_area is to leave for an overlapping request when the packed
\* axis is aligned to multiples of n.
ClipResultIs(n) ==
    LET i == BBox(ClipPixels)
        r == clipped.rect
    IN /\ \A px \in ClipPixels : Covers(r, px)
       /\ IF colorspace.depth >= 8 THEN r = i
          ELSE IF colorspace.pixels_in_byte_share_row
          THEN /\ r.y1 = i.y1 /\ r.y2 = i.y2
               /\ MovedOutward(i.x1, i.x2, r.x1, r.x2, n)
          ELSE /\ r.x1 = i.x1 /\ r.x2 = i.x2
               /\ MovedOutward(i.y1, i.y2, r.y1, r.y2, n)

\* C22 as stated: clip_area(r) reports nothing to draw exactly when r does
\* not overlap the full-device area; otherwise its result contains r
\* intersected with the device area, and for a colour depth below 8 its
\* bounds along the packed axis (x when pixels_in_byte_share_row, else y)
\* are moved outward to the nearest multiples of the pixels per byte,
\* 8 / depth, while the other axis is unchanged.
C22_ClipAlignsToByte ==
    clipped.done =>
        /\ clipped.ok <=> ClipPixels # {}
        /\ clipped.ok => ClipResultIs(8 \div colorspace.depth)

\* C22 as amended: the same, with the bounds along the packed axis moved
\* outward to the nearest multiples of the pixels per cell,
\* (8 // depth) * bytes_per_cell.
C22_ClipAlignsToCell ==
    clipped.done =>
        /\ clipped.ok <=> ClipPixels # {}
        /\ clipped.ok => ClipResultIs(PixelsPerByte(colorspace))

\* Depth 1, pixels of a byte in one row, one byte per cell: x:[3,5) on the
\* 4 pixel wide display is clipped to [3,4) and widened to [0,8).
C22_Witness ==
    /\ clipped.done
    /\ clipped.ok
    /\ colorspace = Colorspace(1, 1, TRUE)
    /\ rect_a = Area(3, 0, 5, 1)
    /\ clipped.rect = Area(0, 0, 8, 1)

(***************************************************************************)
(* TileGrid.__init__ (displayio/tilegrid.py) on its own, over bitmaps of   *)
(* BmpW x BmpH and of 64 x 32 pixels.  A tile size left out (None in the   *)
(* source) is written DefaultArg.                                          *)
(***************************************************************************)
DefaultArg == -1

BitmapSizes == {<< BmpW, BmpH >>, << 64, 32 >>}
TileSizes == (0 .. BmpW + 1) \cup {10, 16, DefaultArg}
DefaultTiles == {0, 256}

\* Lines 102-105.
TileSize(arg, bitmap_size) == IF arg = DefaultArg THEN bitmap_size ELSE arg

TileGridInitErrorWidthOnly(bw, bh, tile_width, tile_height, default_tile) ==
    LET tw == TileSize(tile_width, bw)
    IN IF tw = 0 THEN "ZeroDivisionError"
       ELSE IF bw % tw # 0 THEN "ValueError"
       ELSE IF ~(0 <= default_tile /\ default_tile <= 255) THEN "ValueError"
       ELSE "none"

\* Lines 106-113: the exception the constructor ends with, "none" when it
\* returns.  A tile size of 0 is a ZeroDivisionError of the % operator.
TileGridInitError(bw, bh, tile_width, tile_height, default_tile) ==
    LET tw == TileSize(tile_width, bw)
        th == TileSize(tile_height, bh)
    IN IF tw = 0 THEN "ZeroDivisionError"
       ELSE IF bw % tw # 0 THEN "ValueError"
       ELSE IF th = 0 THEN "ZeroDivisionError"
       ELSE IF bh % th # 0 THEN "ValueError"
       ELSE IF ~(0 <= default_tile /\ default_tile <= 255) THEN "ValueError"
       ELSE "none"

\* Line 116.
RECURSIVE Repeat(_, _)
Repeat(n, e) == IF n <= 0 THEN << >> ELSE << e >> \o Repeat(n - 1, e)

\* TileGrid(bitmap, width=w, height=h, tile_width=, tile_height=,
\* default_tile=) over a bitmap of bw x bh pixels.
TileGridInit(bw, bh, w, h, tile_width, tile_height, default_tile) ==
    /\ pc["fg"] = "idle"
    /\ ~tg.made
    /\ LET err == TileGridInitError(bw, bh, tile_width, tile_height, default_tile)
           args == [NoTileGrid EXCEPT !.made = TRUE, !.bitmap_width = bw,
                                      !.bitmap_height = bh,
                                      !.default_tile = default_tile]
       IN tg' = IF err # "none"
                THEN [args EXCEPT !.raised = TRUE,
                                  !.tile_width = tile_width,
                                  !.tile_height = tile_height]
                ELSE [args EXCEPT !.width = w, !.height = h,
                                  !.tile_width = TileSize(tile_width, bw),
                                  !.tile_height = TileSize(tile_height, bh),
                                  !.tiles = Repeat(w * h, default_tile)]
    /\ UNCHANGED << sceneVars, coreVars, displayVars, now, bitmapVars,
                    threadVars, histVars, workerVars, rect_a, rect_b,
                    overlap_ab, overlap_ba, union_ab, clipVars, tileCall,
                    initVars, busVars, ctorVars, extraVars, lastCall >>

\* TileGrid._fill_area, line 226: the tiles per row of the bitmap.
TileCountX == tg.bitmap_width \div tg.tile_width

InitTileGrid ==
    /\ InitScene /\ InitCore /\ InitBitmap /\ InitThreads /\ InitRects
    /\ auto_refresh = FALSE
    /\ first_manual_refresh = TRUE
    /\ last_refresh_call = 0
    /\ now = 0
    /\ lastCall = Call("init", None, None, FALSE, None)

NextTileGrid ==
    \E size \in BitmapSizes, w \in 1 .. MaxGrid, h \in 1 .. MaxGrid,
       tw \in TileSizes, th \in TileSizes, dt \in DefaultTiles :
        TileGridInit(size[1], size[2], w, h, tw, th, dt)

SpecTileGrid == InitTileGrid /\ [][NextTileGrid]_vars

\* n exactly divides m: m is a whole number of n's.
ExactlyDivides(n, m) == \E k \in 1 .. m : k * n = m

\* C23: constructing a TileGrid (with a default tile in 0..255) raises an
\* error whenever tile_width does not exactly divide the bitmap width or
\* tile_height does not exactly divide the bitmap height, and otherwise
\* succeeds with bitmap_width / tile_width tiles per bitmap row.
C23_TileSizeMustDivide ==
    (tg.made /\ tg.default_tile \in 0 .. 255) =>
        /\ tg.raised <=>
              \/ ~ExactlyDivides(TileSize(tg.tile_width, tg.bitmap_width),
                                 tg.bitmap_width)
              \/ ~ExactlyDivides(TileSize(tg.tile_height, tg.bitmap_height),
                                 tg.bitmap_height)
        /\ ~tg.raised => TileCountX * tg.tile_width = tg.bitmap_width

\* 64 / 16: four tiles per row.
C23_Witness ==
    /\ tg.made
    /\ ~tg.raised
    /\ tg.bitmap_width = 64
    /\ tg.tile_width = 16
    /\ TileCountX = 4

(***************************************************************************)
(* Tile access (TileGrid.__getitem__, TileGrid.__setitem__) on grids of up *)
(* to MaxGrid x MaxGrid tiles over the BmpW x BmpH bitmap.                 *)
(***************************************************************************)
\* The positions, flat indexes and values the accesses pass.
TileXs == -1 .. MaxGrid + 1
TileIndexes == (0 - (MaxGrid * MaxGrid + 1)) .. (MaxGrid * MaxGrid + 1)
TileValues == {-1, 7, 256}

\* A Python list index i that list l accepts, and the element it names.
ListIndexOk(l, i) == 0 - Len(l) <= i /\ i < Len(l)
ListAt(l, i) == IF i < 0 THEN i + Len(l) + 1 ELSE i + 1

\* Lines 370 and 385: the test that raises "Tile index out of bounds".
TileOutOfBounds(x, y, index) ==
    x > tg.width \/ y > tg.height \/ index >= Len(tg.tiles)

\* __getitem__ from line 370 on; a list index the list refuses is an
\* IndexError.
TileGet(x, y, index) ==
    /\ pc["fg"] = "idle"
    /\ tg.made /\ ~tg.raised
    /\ tileCall' = IF TileOutOfBounds(x, y, index) \/ ~ListIndexOk(tg.tiles, index)
                   THEN TileCall("get", x, y, index, TRUE, NoRet)
                   ELSE TileCall("get", x, y, index, FALSE,
                                 tg.tiles[ListAt(tg.tiles, index)])
    /\ UNCHANGED << sceneVars, coreVars, displayVars, now, bitmapVars,
                    threadVars, histVars, workerVars, rect_a, rect_b,
                    overlap_ab, overlap_ba, union_ab, clipVars, tg, initVars,
                    busVars, ctorVars, extraVars, lastCall >>

\* __setitem__ from line 385 on.
TileSet(x, y, index, value) ==
    /\ pc["fg"] = "idle"
    /\ tg.made /\ ~tg.raised
    /\ IF \/ TileOutOfBounds(x, y, index)
          \/ ~(0 <= value /\ value <= 255)
          \/ ~ListIndexOk(tg.tiles, index)
       THEN /\ tileCall' = TileCall("set", x, y, index, TRUE, NoRet)
            /\ UNCHANGED tg
       ELSE /\ tileCall' = TileCall("set", x, y, index, FALSE, NoRet)
            /\ tg' = [tg EXCEPT !.tiles[ListAt(tg.tiles, index)] = value]
    /\ UNCHANGED << sceneVars, coreVars, displayVars, now, bitmapVars,
                    threadVars, histVars, workerVars, rect_a, rect_b,
                    overlap_ab, overlap_ba, union_ab, clipVars, initVars,
                    busVars, ctorVars, extraVars, lastCall >>

\* tilegrid[x, y], lines 363-366.
TileGridGetItemXY(x, y) == TileGet(x, y, y * tg.width + x)

\* tilegrid[index], lines 367-369.
TileGridGetItem(index) == TileGet(index % tg.width, index \div tg.width, index)

\* tilegrid[x, y] = value, lines 378-381.
TileGridSetItemXY(x, y, value) == TileSet(x, y, y * tg.width + x, value)

\* tilegrid[index] = value, lines 382-384.
TileGridSetItem(index, value) ==
    TileSet(index % tg.width, index \div tg.width, index, value)

NextTiles ==
    \/ \E w \in 1 .. MaxGrid, h \in 1 .. MaxGrid :
          TileGridInit(BmpW, BmpH, w, h, DefaultArg, DefaultArg, 0)
    \/ \E x \in TileXs, y \in TileXs : TileGridGetItemXY(x, y)
    \/ \E i \in TileIndexes : TileGridGetItem(i)
    \/ \E x \in TileXs, y \in TileXs, v \in TileValues : TileGridSetItemXY(x, y, v)
    \/ \E i \in TileIndexes, v \in TileValues : TileGridSetItem(i, v)

SpecTiles == InitTileGrid /\ [][NextTiles]_vars

\* The position (x, y) is on the grid; the flat index is.
OnGrid(x, y) == 0 <= x /\ x < tg.width /\ 0 <= y /\ y < tg.height
OnGridIndex(i) == 0 <= i /\ i < tg.width * tg.height

\* What an access is to do: raise and change no tile when the position or
\* the value is out of range, else read or write the tile at place k.
TileAccessIs(ok, k, writes, v) ==
    IF ok
    THEN /\ ~tileCall'.raised
         /\ IF writes
            THEN tg' = [tg EXCEPT !.tiles[k + 1] = v]
            ELSE tileCall'.ret = tg.tiles[k + 1] /\ tg' = tg
    ELSE tileCall'.raised /\ tg' = tg

\* C24: a tile get or set by flat index or by (x, y) raises an error and
\* leaves every tile unchanged whenever the position is outside the grid
\* (x not in [0, width), y not in [0, height), flat index not in
\* [0, width * height)) or the value written is outside 0..255; an in-range
\* access reads or writes exactly the tile at y * width + x.
C24_TileAccessChecked ==
    [][/\ \A x \in TileXs, y \in TileXs :
            TileGridGetItemXY(x, y)
                => TileAccessIs(OnGrid(x, y), y * tg.width + x, FALSE, 0)
       /\ \A i \in TileIndexes :
            TileGridGetItem(i) => TileAccessIs(OnGridIndex(i), i, FALSE, 0)
       /\ \A x \in TileXs, y \in TileXs, v \in TileValues :
            TileGridSetItemXY(x, y, v)
                => TileAccessIs(OnGrid(x, y) /\ v \in 0 .. 255,
                                y * tg.width + x, TRUE, v)
       /\ \A i \in TileIndexes, v \in TileValues :
            TileGridSetItem(i, v)
                => TileAccessIs(OnGridIndex(i) /\ v \in 0 .. 255, i, TRUE, v)]_vars

(***************************************************************************)
(* Display._initialize (the same loop in displayio/_display.py and         *)
(* displayio/display.py) run over init sequences made of up to MaxRecords  *)
(* well-formed records with up to MaxParams parameter bytes each.          *)
(***************************************************************************)
NoDelay == -1

InitCommands == {17, 41}
InitDelays == {NoDelay, 120, 255}

\* Parameter bytes with bit 7 set, so that a cursor that is off by one
\* would read them as a size with the delay flag.
InitParams(n) == [k \in 1 .. n |-> 128 + k]

InitRecords ==
    {[command |-> c, params |-> InitParams(n), delay |-> d] :
        c \in InitCommands, n \in 0 .. MaxParams, d \in InitDelays}

\* The bytes of one record: [command][size][params...][delay?], bit 7 of
\* size telling whether the delay byte follows.
EncodeRecord(r) ==
    << r.command,
       Len(r.params) + (IF r.delay # NoDelay THEN 128 ELSE 0) >>
        \o r.params
        \o (IF r.delay # NoDelay THEN << r.delay >> ELSE << >>)

RECURSIVE EncodeRecords(_)
EncodeRecords(rs) ==
    IF rs = << >> THEN << >>
    ELSE EncodeRecord(Head(rs)) \o EncodeRecords(Tail(rs))

RecordLists == UNION {[1 .. n -> InitRecords] : n \in 0 .. MaxRecords}

\* data_size & 0x80 and data_size & ~0x80 on a byte.
HasDelayBit(b) == (b \div 128) % 2 = 1
ClearDelayBit(b) == IF HasDelayBit(b) THEN b - 128 ELSE b

\* init_sequence[a : b], a slice with 0-based bounds; it stops at the end
\* of the sequence.
Slice(q, a, b) == SubSeq(q, a + 1, Min(b, Len(q)))

DelayMsRaw(b) == b

\* Lines 224-225: 255 stands for 500 ms.
DelayMs(b) == IF b = 255 THEN 500 ELSE b

\* One turn of the loop of _initialize: the command with its data is sent,
\* the sleep is made (10 ms when the record names no delay) and the cursor
\* moves on.
InitializeStep ==
    /\ pc["fg"] = "idle"
    /\ init_i < Len(init_sequence)
    /\ LET command == init_sequence[init_i + 1]
           size == init_sequence[init_i + 2]
           delay == HasDelayBit(size)
           data_size == ClearDelayBit(size)
           data == Slice(init_sequence, init_i + 2, init_i + 2 + data_size)
           skipped == IF delay THEN data_size + 1 ELSE data_size
       IN /\ init_sent' = Append(init_sent, [command |-> command, data |-> data])
          /\ init_slept' = Append(init_slept,
                                  IF delay
                                  THEN DelayMs(init_sequence[init_i + 1 + skipped + 1])
                                  ELSE 10)
          /\ init_i' = init_i + 2 + skipped
    /\ UNCHANGED << sceneVars, coreVars, displayVars, now, bitmapVars,
                    threadVars, histVars, workerVars, rect_a, rect_b,
                    overlap_ab, overlap_ba, union_ab, clipVars, gridVars,
                    init_sequence, init_records, busVars, ctorVars, extraVars, lastCall
                    >>

InitInitialize ==
    /\ InitScene /\ InitCore /\ InitBitmap /\ InitThreads /\ InitGrid
    /\ auto_refresh = FALSE
    /\ first_manual_refresh = TRUE
    /\ last_refresh_call = 0
    /\ now = 0
    /\ lastCall = Call("init", None, None, FALSE, None)
    /\ colorspace = DefaultColorspace
    /\ clipped = NoClip
    /\ rect_a = Area(0, 0, 0, 0)
    /\ rect_b = Area(0, 0, 0, 0)
    /\ overlap_ab = NoOverlap
    /\ overlap_ba = NoOverlap
    /\ union_ab = NoUnion
    /\ init_records \in RecordLists
    /\ init_sequence = EncodeRecords(init_records)
    /\ init_i = 0
    /\ init_sent = << >>
    /\ init_slept = << >>
    /\ InitBus
    /\ InitCtor
    /\ InitExtra

NextInitialize == InitializeStep

\* The constructor's thread keeps running its loop.
SpecInitialize ==
    InitInitialize /\ [][NextInitialize]_vars /\ WF_vars(NextInitialize)

\* The loop of _initialize has ended.
InitializeDone == init_i >= Len(init_sequence)

\* The first n records have been sent as they were written and the sleeps
\* their delay bytes name have been made.
SentAsWritten(n) ==
    /\ Len(init_sent) = n
    /\ Len(init_slept) = n
    /\ \A k \in 1 .. n :
          /\ init_sent[k].command = init_records[k].command
          /\ init_sent[k].data = init_records[k].params
          /\ init_records[k].delay # NoDelay =>
                init_slept[k] = IF init_records[k].delay = 255 THEN 500
                                ELSE init_records[k].delay

\* C25: for every init sequence that is a concatenation of well-formed
\* records, initialization terminates; it has then sent exactly one command
\* per record, in order, each with exactly (size & 0x7F) parameter bytes,
\* has slept after each record whose size bit 7 is set for the milliseconds
\* of its delay byte (255 meaning 500) before the next record, and its
\* cursor is exactly at the end of the sequence.
C25_InitSequenceParsed ==
    /\ <>InitializeDone
    /\ [](InitializeDone =>
            /\ init_i = Len(init_sequence)
            /\ SentAsWritten(Len(init_records)))
    /\ [](\E n \in 0 .. Len(init_records) : SentAsWritten(n))

\* Two records, the first with parameters and a delay of 255, have been
\* run through.
C25_Witness ==
    /\ InitializeDone
    /\ Len(init_records) = 2
    /\ init_records[1].delay = 255
    /\ Len(init_records[1].params) = 2
    /\ init_slept[1] = 500
    /\ init_sent[2].command = init_records[2].command

(***************************************************************************)
(* Display._refresh_area statement by statement, with the transactions of  *)
(* the bus (FourWire._begin_transaction spins on the lock of the SPI bus,  *)
(* _end_transaction gives it back).  The display has the constructor's     *)
(* defaults: no set-current-column or set-current-row command, no SH1107   *)
(* addressing.  bus_pc[t] is "idle" outside _refresh_area; "col", "row"    *)
(* and "pix" are the three calls of begin_transaction, the same names with *)
(* "_open" the transactions they open, "fill" the call of fill_area.       *)
(***************************************************************************)
\* Line 341.
BufferSize == 128

\* Line 348: struct.calcsize("I") is 4.
PixelsPerWord(cs) == (4 * 8) \div cs.depth

AreaWidth(a) == a.x2 - a.x1
AreaHeight(a) == a.y2 - a.y1
AreaSize(a) == AreaWidth(a) * AreaHeight(a)

\* Lines 347-366: rows_per_buffer of a clipped area.
RowsPerBuffer(cs, c) ==
    IF AreaSize(c) > BufferSize * PixelsPerWord(cs)
    THEN LET r0 == (BufferSize * PixelsPerWord(cs)) \div AreaWidth(c)
             r1 == IF r0 = 0 THEN 1 ELSE r0
             n == 8 \div cs.depth
         IN IF cs.depth < 8 /\ cs.pixels_in_byte_share_row /\ r1 % n # 0
            THEN r1 - (r1 % n)
            ELSE r1
    ELSE AreaHeight(c)

\* Lines 351 and 367-369: subrectangles.
Subrectangles(cs, c) ==
    IF AreaSize(c) > BufferSize * PixelsPerWord(cs)
    THEN LET r == RowsPerBuffer(cs, c)
         IN (AreaHeight(c) \div r) + (IF AreaHeight(c) % r # 0 THEN 1 ELSE 0)
    ELSE 1

\* Lines 381-388: the k-th subrectangle; remaining_rows stays at the height
\* of the clipped area.
Subrectangle(cs, c, k) ==
    LET r == RowsPerBuffer(cs, c)
        y1 == c.y1 + r * k
    IN Area(c.x1, y1, c.x2,
            IF AreaHeight(c) < r THEN y1 + AreaHeight(c) ELSE c.y1 + r * (k + 1))

\* The area the thread is refreshing, clipped (lines 343-344).
ClippedNow(t) ==
    ClipArea(area, colorspace, areas[t][idx[t] + 1], Area(0, 0, 0, 0))

\* Lines 343-378: the area is clipped; one that misses the device is done.
RefreshAreaClip(t) ==
    /\ pc[t] = "stream"
    /\ bus_pc[t] = "idle"
    /\ idx[t] < Len(areas[t])
    /\ IF ClipAreaOk(area, areas[t][idx[t] + 1])
       THEN /\ bus_pc' = [bus_pc EXCEPT ![t] = "col"]
            /\ sub_index' = [sub_index EXCEPT ![t] = 0]
            /\ sub_count' = [sub_count EXCEPT ![t] =
                                Subrectangles(colorspace, ClippedNow(t))]
            /\ UNCHANGED idx
       ELSE /\ idx' = [idx EXCEPT ![t] = @ + 1]
            /\ UNCHANGED << bus_pc, sub_index, sub_count >>
    /\ UNCHANGED << sceneVars, coreVars, displayVars, now, bitmapVars, pc,
                    areas, wcoord, histVars, workerVars, rect_a, rect_b,
                    overlap_ab, overlap_ba, union_ab, clipVars, gridVars,
                    initVars, ctorVars, extraVars, bus_owner, lastCall >>

BusFrame ==
    UNCHANGED << sceneVars, coreVars, displayVars, now, dirty_area, written,
                 cleared, pc, areas, wcoord, histVars, workerVars, rect_a,
                 rect_b, overlap_ab, overlap_ba, union_ab, clipVars, gridVars,
                 initVars, ctorVars, extraVars, sub_count, lastCall >>

Opened == [col |-> "col_open", row |-> "row_open", pix |-> "pix_open"]

\* _DisplayCore.begin_transaction (set_region_to_update lines 325 and 370,
\* _refresh_area line 401): try_lock succeeds when no thread holds the bus.
BeginTransaction(t) ==
    /\ bus_pc[t] \in DOMAIN Opened
    /\ bus_owner = None
    /\ bus_owner' = t
    /\ bus_pc' = [bus_pc EXCEPT ![t] = Opened[@]]
    /\ UNCHANGED << stale, idx, sub_index >>
    /\ BusFrame

\* set_region_to_update, lines 326-358: the column window is sent and the
\* transaction is ended.
SetRegionColumn(t) ==
    /\ bus_pc[t] = "col_open"
    /\ bus_owner' = None
    /\ bus_pc' = [bus_pc EXCEPT ![t] = "row"]
    /\ UNCHANGED << stale, idx, sub_index >>
    /\ BusFrame

\* set_region_to_update, lines 372-389: the same for the row window.
SetRegionRow(t) ==
    /\ bus_pc[t] = "row_open"
    /\ bus_owner' = None
    /\ bus_pc' = [bus_pc EXCEPT ![t] = "fill"]
    /\ UNCHANGED << stale, idx, sub_index >>
    /\ BusFrame

\* _refresh_area, line 399: fill_area, with no transaction open.
FillArea(t) ==
    /\ bus_pc[t] = "fill"
    /\ bus_pc' = [bus_pc EXCEPT ![t] = "pix"]
    /\ UNCHANGED << stale, idx, sub_index, bus_owner >>
    /\ BusFrame

\* _refresh_area, lines 402-403: the pixels are sent and the transaction is
\* ended; then the next subrectangle or the next area.
SendPixels(t) ==
    /\ bus_pc[t] = "pix_open"
    /\ bus_owner' = None
    /\ stale' = stale \ Streamed(Subrectangle(colorspace, ClippedNow(t),
                                               sub_index[t]))
    /\ IF sub_index[t] + 1 < sub_count[t]
       THEN /\ sub_index' = [sub_index EXCEPT ![t] = @ + 1]
            /\ bus_pc' = [bus_pc EXCEPT ![t] = "col"]
            /\ UNCHANGED idx
       ELSE /\ idx' = [idx EXCEPT ![t] = @ + 1]
            /\ bus_pc' = [bus_pc EXCEPT ![t] = "idle"]
            /\ UNCHANGED sub_index
    /\ BusFrame

NextBus ==
    \/ GroupAppend("g1", "t1")
    \/ DisplayShow("g1")
    \/ BitmapSetItem(0, 0)
    \/ RefreshCall
    \/ Background
    \/ \E t \in Threads : StartRefreshTest(t)
    \/ \E t \in Threads : StartRefreshSet(t)
    \/ \E t \in Threads : CollectAreas(t)
    \/ \E t \in Threads : RefreshAreaClip(t)
    \/ \E t \in Threads : BeginTransaction(t)
    \/ \E t \in Threads : SetRegionColumn(t)
    \/ \E t \in Threads : SetRegionRow(t)
    \/ \E t \in Threads : FillArea(t)
    \/ \E t \in Threads : SendPixels(t)
    \/ \E t \in Threads : FinishRefresh(t)
    \/ Tick(RaceMaxTime)

SpecBus == Init /\ [][NextBus]_vars

\* C26: during a refresh pass each sub-rectangle is handled inside exactly
\* one bus transaction that brackets its addressing commands, its fillArea
\* and its pixel streaming (from the first begin_transaction to the end of
\* the pixels the thread holds the bus), and begin_transaction is never
\* called while a transaction is already open.
C26_OneTransactionPerSubrectangle ==
    \A t \in Threads :
        /\ bus_pc[t] \in {"col_open", "row", "row_open", "fill", "pix",
                          "pix_open"} => bus_owner = t
        /\ bus_pc[t] \in {"col"} => bus_owner = None

(***************************************************************************)
(* The auto-refresh worker of displayio/display.py: the auto_refresh       *)
(* setter (lines 328-340) run by the main thread, one step per statement   *)
(* the worker can run between, and the worker's _refresh_loop (lines       *)
(* 225-227).  refresh_thread is None, "new" (a Thread not started yet),     *)
(* "alive" or "done" (its run has ended).                                   *)
(***************************************************************************)
\* Line 330: the flag is stored first.
AutoRefreshSet(v) ==
    /\ pc["fg"] = "idle"
    /\ auto_refresh' = v
    /\ setter_value' = v
    /\ pc' = [pc EXCEPT !["fg"] = "ar_create"]
    /\ UNCHANGED << sceneVars, coreVars, first_manual_refresh,
                    last_refresh_call, now, bitmapVars, areas, idx, wcoord,
                    histVars, refresh_thread, worker, rectVars, lastCall >>

\* Lines 331-334: the Thread object is made once.
AutoRefreshCreate ==
    /\ pc["fg"] = "ar_create"
    /\ refresh_thread' = IF refresh_thread = None THEN "new" ELSE refresh_thread
    /\ pc' = [pc EXCEPT !["fg"] = "ar_check"]
    /\ UNCHANGED << sceneVars, coreVars, displayVars, now, bitmapVars, areas,
                    idx, wcoord, histVars, worker, setter_value, rectVars,
                    lastCall >>

\* Lines 335-338: is_alive(), then start() or on to join().  Thread.start
\* on a thread whose run has ended raises RuntimeError.
AutoRefreshCheck ==
    /\ pc["fg"] = "ar_check"
    /\ LET alive == refresh_thread = "alive"
       IN IF setter_value /\ ~alive
          THEN /\ pc' = [pc EXCEPT !["fg"] = "idle"]
               /\ IF refresh_thread = "new"
                  THEN /\ refresh_thread' = "alive"
                       /\ worker' = "test"
                       /\ lastCall' = Call("auto_refresh", None, None, FALSE, None)
                  ELSE /\ lastCall' = Call("auto_refresh", None, None, TRUE, None)
                       /\ UNCHANGED << refresh_thread, worker >>
          ELSE IF ~setter_value /\ alive
          THEN /\ pc' = [pc EXCEPT !["fg"] = "ar_join"]
               /\ UNCHANGED << refresh_thread, worker, lastCall >>
          ELSE /\ pc' = [pc EXCEPT !["fg"] = "idle"]
               /\ lastCall' = Call("auto_refresh", None, None, FALSE, None)
               /\ UNCHANGED << refresh_thread, worker >>
    /\ UNCHANGED << sceneVars, coreVars, displayVars, now, bitmapVars, areas,
                    idx, wcoord, histVars, setter_value, rectVars >>

JoinReturnsAtOnce == TRUE

\* Thread.join returns when the thread's run has ended.
JoinReturns == refresh_thread # "alive"

\* Line 340: join(), then the setter returns.
AutoRefreshJoin ==
    /\ pc["fg"] = "ar_join"
    /\ JoinReturns
    /\ pc' = [pc EXCEPT !["fg"] = "idle"]
    /\ lastCall' = Call("auto_refresh", None, None, FALSE, None)
    /\ UNCHANGED << sceneVars, coreVars, displayVars, now, bitmapVars, areas,
                    idx, wcoord, histVars, workerVars, rectVars >>

\* _refresh_loop, line 226: the test of the flag; the loop and with it the
\* thread end when it is False.
WorkerTest ==
    /\ worker = "test"
    /\ IF auto_refresh
       THEN /\ worker' = "refresh"
            /\ UNCHANGED refresh_thread
       ELSE /\ worker' = "off"
            /\ refresh_thread' = "done"
    /\ UNCHANGED << sceneVars, coreVars, displayVars, now, bitmapVars,
                    threadVars, histVars, setter_value, rectVars, lastCall >>

\* _refresh_loop, line 227: one refresh() of the worker.
WorkerRefresh ==
    /\ worker = "refresh"
    /\ worker' = "test"
    /\ UNCHANGED << sceneVars, coreVars, displayVars, now, bitmapVars,
                    threadVars, histVars, refresh_thread, setter_value,
                    rectVars, lastCall >>

InitWorker ==
    /\ InitScene /\ InitCore /\ InitBitmap /\ InitThreads /\ InitRects
    /\ auto_refresh = FALSE
    /\ first_manual_refresh = TRUE
    /\ last_refresh_call = 0
    /\ now = 0
    /\ lastCall = Call("init", None, None, FALSE, None)

NextWorker ==
    \/ \E v \in BOOLEAN : AutoRefreshSet(v)
    \/ AutoRefreshCreate
    \/ AutoRefreshCheck
    \/ AutoRefreshJoin
    \/ WorkerTest
    \/ WorkerRefresh
    \/ GroupAppend("g1", "t1")
    \/ \E g \in {"g1", None} : DisplayShow(g)

SpecWorker == InitWorker /\ [][NextWorker]_vars

\* C14: at most one auto-refresh worker exists (the loop runs only in the
\* one Thread object the display holds, while that thread is alive), and
\* once the setter has returned from auto_refresh = False the worker has
\* stopped: no background refresh is in progress and none starts while
\* auto-refresh stays off.
C14_DisableJoinsWorker ==
    /\ worker # "off" <=> refresh_thread = "alive"
    /\ (pc["fg"] = "idle" /\ ~auto_refresh) => worker = "off"

\* The worker was running, auto-refresh was switched off and the setter is
\* back.
C14_Witness ==
    /\ pc["fg"] = "idle"
    /\ ~auto_refresh
    /\ refresh_thread = "done"
    /\ lastCall = Call("auto_refresh", None, None, FALSE, None)

(***************************************************************************)
(* Rotation of the display (_DisplayCore.set_rotation, reached through the *)
(* Display.rotation setter) and the scale of a Group (Group._set_scale).   *)
(***************************************************************************)
RotationAngles == {0, 90, 180, 270}

\* The angles the calls of these runs pass: the four right angles and one
\* that is none.
Angles == RotationAngles \cup {45}

SwapsOnChange(r, angle) == r # angle

\* Lines 125-128: width and height are exchanged when the display goes from
\* an upright rotation to a lying one or back.
Swaps(r, angle) == (r \in {90, 270}) # (angle \in {90, 270})

RotationTransformUpsideDown(r, w, h) ==
    LET transpose == r \notin {0, 180}
        mirror_x == IF transpose THEN r # 270 ELSE r = 0
        mirror_y == IF transpose THEN r = 270 ELSE r = 0
    IN Transform(IF mirror_x THEN (IF transpose THEN h ELSE w) ELSE 0,
                 IF mirror_y THEN (IF transpose THEN w ELSE h) ELSE 0,
                 IF mirror_x THEN -1 ELSE 1, IF mirror_y THEN -1 ELSE 1, 1,
                 transpose, mirror_x, mirror_y)

\* Lines 135-176: the device transform for rotation r on a display that is
\* now w wide and h high.
RotationTransform(r, w, h) ==
    LET transpose == r \notin {0, 180}
        mirror_x == IF transpose THEN r # 270 ELSE r = 180
        mirror_y == IF transpose THEN r = 270 ELSE r = 180
    IN Transform(IF mirror_x THEN (IF transpose THEN h ELSE w) ELSE 0,
                 IF mirror_y THEN (IF transpose THEN w ELSE h) ELSE 0,
                 IF mirror_x THEN -1 ELSE 1, IF mirror_y THEN -1 ELSE 1, 1,
                 transpose, mirror_x, mirror_y)

\* Lines 153-170: the device area.
RotationArea(r, w, h) ==
    IF r \notin {0, 180} THEN Area(0, 0, h, w) ELSE Area(0, 0, w, h)

\* _DisplayCore.set_rotation; no angle is refused.  The call is recorded
\* with the rotation before it.
SetRotation(angle) ==
    /\ pc["fg"] = "idle"
    /\ LET swap == Swaps(rotation, angle)
           w == IF swap THEN height ELSE width
           h == IF swap THEN width ELSE height
           r == angle % 360
           t == RotationTransform(r, w, h)
       IN /\ width' = w
          /\ height' = h
          /\ rotation' = r
          /\ transform' = t
          /\ area' = RotationArea(r, w, h)
          /\ IF current_group # None
             THEN SetScene(UpdateTransform([SceneOf EXCEPT !.transform = t],
                                           layers, current_group, "display"))
             ELSE UNCHANGED << in_group, abs, tgt, current_area, scale >>
    /\ lastCall' = Call("set_rotation", ToString(rotation), None, FALSE, None)
    /\ UNCHANGED << layers, current_group, full_refresh, refresh_in_progress,
                    last_refresh, displayVars, now, bitmapVars, threadVars,
                    histVars, workerVars, rectVars >>

SetScaleSceneNoChildren(s, lay, g, v) ==
    LET a == s.abs[g]
    IN [s EXCEPT !.abs[g] = [a EXCEPT !.dx = (a.dx \div s.scale[g]) * v,
                                      !.dy = (a.dy \div s.scale[g]) * v,
                                      !.scale = (a.scale \div s.scale[g]) * v],
                 !.scale[g] = v]

\* Group._set_scale, lines 190-201, for a new value: the absolute transform
\* is rescaled (the divisions are exact), then the children are updated,
\* which _update_child_transforms does only for a Group that is in a group.
SetScaleScene(s, lay, g, v) ==
    LET a == s.abs[g]
        s1 == [s EXCEPT !.abs[g] = [a EXCEPT !.dx = (a.dx \div s.scale[g]) * v,
                                             !.dy = (a.dy \div s.scale[g]) * v,
                                             !.scale = (a.scale \div s.scale[g]) * v],
                        !.scale[g] = v]
    IN IF s1.in_group[g] THEN UpdateLayers(s1, lay, lay[g], g) ELSE s1

\* Group.scale = v
GroupSetScale(g, v) ==
    /\ pc["fg"] = "idle"
    /\ IF v < 1
       THEN /\ lastCall' = Call("set_scale", g, None, TRUE, None)
            /\ UNCHANGED << in_group, abs, tgt, current_area, scale >>
       ELSE /\ lastCall' = Call("set_scale", g, None, FALSE, None)
            /\ IF scale[g] # v
               THEN SetScene(SetScaleScene(SceneOf, layers, g, v))
               ELSE UNCHANGED << in_group, abs, tgt, current_area, scale >>
    /\ UNCHANGED << layers, coreVars, displayVars, now, bitmapVars,
                    threadVars, histVars, workerVars, rectVars >>

InitTransform ==
    /\ InitScene /\ InitCore /\ InitBitmap /\ InitThreads /\ InitRects
    /\ auto_refresh = FALSE
    /\ first_manual_refresh = TRUE
    /\ last_refresh_call = 0
    /\ now = 0
    /\ lastCall = Call("init", None, None, FALSE, None)

NextTransform ==
    \/ GroupAppend("g1", "g2")
    \/ GroupAppend("g2", "t1")
    \/ GroupPop("g1", 0)
    \/ \E g \in {"g1", None} : DisplayShow(g)
    \/ \E g \in Groups, v \in 0 .. MaxScale : GroupSetScale(g, v)
    \/ \E angle \in Angles : SetRotation(angle)

SpecTransform == InitTransform /\ [][NextTransform]_vars

\* C15: after any sequence of set_rotation calls, set_rotation(0) leaves the
\* device transform equal to the identity.
C15_RotationZeroIsIdentity ==
    [][SetRotation(0) => transform' = IdentityTransform]_vars

C15_Witness ==
    /\ lastCall = Call("set_rotation", "270", None, FALSE, None)
    /\ rotation = 0
    /\ transform = IdentityTransform

\* C16: for a display created DisplayWidth x DisplayHeight at rotation 0,
\* the reported (width, height) is (W, H) at rotation 0 or 180 and (H, W)
\* at 90 or 270.
C16_WidthHeightFollowRotation ==
    /\ rotation \in {0, 180} => (width = DisplayWidth /\ height = DisplayHeight)
    /\ rotation \in {90, 270} => (width = DisplayHeight /\ height = DisplayWidth)

C16_Witness ==
    /\ lastCall = Call("set_rotation", "180", None, FALSE, None)
    /\ rotation = 90
    /\ width = DisplayHeight
    /\ height = DisplayWidth

\* C17: setting the rotation to an angle outside {0, 90, 180, 270} is
\* rejected with an error and leaves rotation, width, height, the device
\* transform and the device area unchanged.
C17_BadAngleRejected ==
    [][\A angle \in Angles \ RotationAngles :
          SetRotation(angle) => (lastCall'.raised /\ UNCHANGED rotVars)]_vars

\* C18 as stated: a Group in the child list of a parent has absolute scale
\* (parent's absolute scale) * (its own scale), also after later changes of
\* either scale.
C18_ChildScaleIsProduct ==
    \A p \in Groups, g \in Groups :
        g \in Range(layers[p]) => abs[g].scale = abs[p].scale * scale[g]

\* C18 as amended: the same for every parent that is itself in a group or
\* shown; under a parent that is not, the product is restored when the
\* parent is attached or shown.
C18_ChildScaleIsProductWhenAttached ==
    \A p \in Groups, g \in Groups :
        (g \in Range(layers[p]) /\ in_group[p])
            => abs[g].scale = abs[p].scale * scale[g]

C18_Witness ==
    /\ current_group = "g1"
    /\ layers["g1"] = << "g2" >>
    /\ scale["g1"] = 2
    /\ scale["g2"] = 2
    /\ abs["g2"].scale = 4
    /\ lastCall = Call("set_scale", "g1", None, FALSE, None)

\* C19 as stated: every Transform (the device transform and each Group's
\* absolute transform) has scale >= 1 and dx, dy each -1 or +1.
C19_UnitSteps ==
    \A t \in {transform} \cup {abs[g] : g \in Groups} :
        t.scale >= 1 /\ t.dx \in {-1, 1} /\ t.dy \in {-1, 1}

\* C19 as amended: every Transform has scale >= 1 and dx, dy each equal to
\* -scale or +scale; for the device transform that is -1 or +1.
C19_StepsAreScale ==
    /\ transform.scale = 1
    /\ \A t \in {transform} \cup {abs[g] : g \in Groups} :
          t.scale >= 1 /\ t.dx \in {-t.scale, t.scale} /\ t.dy \in {-t.scale, t.scale}

C19_Witness ==
    /\ rotation = 180
    /\ current_group = "g1"
    /\ layers["g1"] = << "g2" >>
    /\ abs["g2"].scale = 2
    /\ abs["g2"].dx = -2
    /\ abs["g2"].dy = -2

(***************************************************************************)
(* Bitmap.__init__ (displayio/_bitmap.py): the check of value_count and    *)
(* the loop that finds the bits per value, one step per test of the loop.  *)
(***************************************************************************)
MaxBits == 64

ValueCounts == {-1, 0, 1, 2, 3, 5, 17, 256, 257, 65537}

\* v >> n of Python: n halvings that round down, also below zero.
RECURSIVE ShiftRight(_, _)
ShiftRight(v, n) == IF n = 0 THEN v ELSE ShiftRight(v \div 2, n - 1)

\* Lines 48-51: the next width tried by the loop.
NextBits(bits) == IF bits < 8 THEN 2 * bits ELSE bits + 8

\* Line 43: the value counts the constructor refuses.
ValueCheck(value_count) == value_count < 0

BitmapFrame ==
    UNCHANGED << sceneVars, coreVars, displayVars, now, bitmapVars, threadVars,
                 histVars, workerVars, rect_a, rect_b, overlap_ab, overlap_ba,
                 union_ab, clipVars, gridVars, initVars, busVars, extraVars,
                 lastCall >>

\* Bitmap(width, height, value_count) up to the loop (lines 39-46).
BitmapInit(w, h, value_count) ==
    /\ bmp.pc = "none"
    /\ bmp' = IF ValueCheck(value_count)
              THEN [bmp EXCEPT !.pc = "raised", !.width = w, !.height = h,
                               !.value_count = value_count,
                               !.error = "ValueError"]
              ELSE [bmp EXCEPT !.pc = "loop", !.width = w, !.height = h,
                               !.value_count = value_count, !.bits = 1]
    /\ BitmapFrame

\* One test of the loop (line 47): another round (lines 48-51), or the rest
\* of the constructor (lines 53-63).
BitmapInitLoop ==
    /\ bmp.pc = "loop"
    /\ IF ShiftRight(bmp.value_count - 1, bmp.bits) # 0
       THEN /\ bmp.bits < MaxBits
            /\ bmp' = [bmp EXCEPT !.bits = NextBits(@)]
       ELSE bmp' = IF bmp.bits > 8 /\ bmp.bits # 16 /\ bmp.bits # 32
                   THEN [bmp EXCEPT !.pc = "raised",
                                    !.error = "NotImplementedError"]
                   ELSE [bmp EXCEPT !.pc = "done",
                                    !.dirty_area = Area(0, 0, bmp.width,
                                                        bmp.height)]
    /\ BitmapFrame

InitBitmapInit == InitDamage

NextBitmapInit ==
    \/ \E w \in 1 .. BmpW, h \in 1 .. BmpH, value_count \in ValueCounts :
          BitmapInit(w, h, value_count)
    \/ BitmapInitLoop

\* The thread that called the constructor keeps running it.
SpecBitmapInit ==
    InitBitmapInit /\ [][NextBitmapInit]_vars /\ WF_vars(BitmapInitLoop)

BitmapInitReturned == bmp.pc \in {"done", "raised"}

\* C29: the Bitmap constructor terminates for every integer value_count,
\* and a value_count that is not greater than 0 is rejected with an error
\* at the call.
C29_ConstructorTerminates ==
    /\ [](bmp.pc # "none" /\ bmp.value_count <= 0
              => bmp.pc = "raised" /\ bmp.error = "ValueError")
    /\ [](bmp.pc # "none" => <>BitmapInitReturned)

(***************************************************************************)
(* Display._refresh_area (displayio/_display.py) on panels large enough    *)
(* for an area to be split: the subrectangles it addresses and the pixel   *)
(* bytes it hands to the bus, one step per round of the loop.              *)
(***************************************************************************)
\* Width and height of the panels: the small one of the other runs, one
\* whose full area is split with a remainder, a wide one and a very wide one.
PanelSizes == {<< DisplayWidth, DisplayHeight >>, << 20, 16 >>, << 320, 5 >>,
               << 600, 16 >>}

\* The areas asked for on a w x h panel: all of it, its first row, and all
\* but the first column and row.
PanelRequests(w, h) == {Area(0, 0, w, h), Area(0, 0, w, 1), Area(1, 1, w, h)}

\* Lines 347-366; above the budget: is the area split (line 355).
IsSplit(cs, c) == AreaSize(c) > BufferSize * PixelsPerWord(cs)

\* Lines 341 and 370-373: buffer_size, the length of the bytearray of
\* line 375.
BufferLength(cs, c) ==
    IF IsSplit(cs, c)
    THEN LET pixels_per_buffer == RowsPerBuffer(cs, c) * AreaWidth(c)
         IN (pixels_per_buffer \div PixelsPerWord(cs))
              + (IF pixels_per_buffer % PixelsPerWord(cs) # 0 THEN 1 ELSE 0)
    ELSE BufferSize

\* Lines 391-398: subrectangle_size_bytes.
SubrectangleSizeBytes(cs, r) ==
    IF cs.depth >= 8 THEN AreaSize(r) * (cs.depth \div 8)
    ELSE AreaSize(r) \div (8 \div cs.depth)

\* len(buffer[:n]) of a buffer of the given length.
SliceLength(len, n) == Min(len, n)

RefreshAreaFrame ==
    UNCHANGED << sceneVars, coreVars, displayVars, now, bitmapVars, threadVars,
                 histVars, workerVars, rect_a, rect_b, overlap_ab, overlap_ba,
                 union_ab, clipVars, gridVars, initVars, busVars, ctorVars,
                 group_x, group_y, tileVars, paletteVars, lastCall >>

\* _refresh_area(a) up to the loop (lines 341-378).  rows_per_buffer can
\* come out as 0 (line 365), and line 367 divides by it.
RefreshAreaStart(a) ==
    /\ ra.pc = "none"
    /\ LET c == ClipArea(area, colorspace, a, Area(0, 0, 0, 0))
       IN ra' = IF ~ClipAreaOk(area, a)
                THEN [ra EXCEPT !.pc = "done"]
                ELSE IF IsSplit(colorspace, c) /\ RowsPerBuffer(colorspace, c) = 0
                THEN [ra EXCEPT !.pc = "raised", !.clipped = c,
                                !.error = "ZeroDivisionError"]
                ELSE [ra EXCEPT !.pc = "loop", !.clipped = c,
                                !.rows = RowsPerBuffer(colorspace, c),
                                !.count = Subrectangles(colorspace, c),
                                !.buffer_len = BufferLength(colorspace, c)]
    /\ RefreshAreaFrame

\* One round of the loop (lines 380-403): the subrectangle is addressed and
\* the first subrectangle_size_bytes bytes of the buffer are sent.
RefreshAreaRound ==
    /\ ra.pc = "loop"
    /\ ra.index < ra.count
    /\ LET r == Subrectangle(colorspace, ra.clipped, ra.index)
           n == SubrectangleSizeBytes(colorspace, r)
       IN ra' = [ra EXCEPT !.index = @ + 1,
                           !.sent = Append(@, [rect |-> r, size_bytes |-> n,
                                               bytes |-> SliceLength(ra.buffer_len, n)])]
    /\ RefreshAreaFrame

\* The loop is over: _refresh_area returns True (line 404).
RefreshAreaReturn ==
    /\ ra.pc = "loop"
    /\ ra.index = ra.count
    /\ ra' = [ra EXCEPT !.pc = "done"]
    /\ RefreshAreaFrame

InitRefreshArea ==
    /\ InitScene /\ InitBitmap /\ InitThreads
    /\ current_group = None
    /\ full_refresh = FALSE
    /\ refresh_in_progress = FALSE
    /\ last_refresh = 0
    /\ rotation = 0
    /\ \E size \in PanelSizes :
          /\ width = size[1]
          /\ height = size[2]
          /\ area = Area(0, 0, size[1], size[2])
    /\ transform = DisplayTransform
    /\ auto_refresh = FALSE
    /\ first_manual_refresh = TRUE
    /\ last_refresh_call = 0
    /\ now = 0
    /\ lastCall = Call("init", None, None, FALSE, None)
    /\ colorspace \in {Colorspace(d, b, s) :
                          d \in ColorDepths, b \in BytesPerCell, s \in BOOLEAN}
    /\ rect_a = Area(0, 0, 0, 0)
    /\ rect_b = Area(0, 0, 0, 0)
    /\ overlap_ab = NoOverlap
    /\ overlap_ba = NoOverlap
    /\ union_ab = NoUnion
    /\ clipped = NoClip
    /\ InitGrid
    /\ InitSequenceDone
    /\ InitBus
    /\ InitCtor
    /\ InitExtra

NextRefreshArea ==
    \/ \E a \in PanelRequests(width, height) : RefreshAreaStart(a)
    \/ RefreshAreaRound
    \/ RefreshAreaReturn

SpecRefreshArea == InitRefreshArea /\ [][NextRefreshArea]_vars

\* The rectangle of the k-th subrectangle sent.
SentRect(k) == ra.sent[k].rect

\* C31: the subrectangles a refresh produces for one clipped area are
\* emitted in increasing row order, are pairwise disjoint, each has at least
\* one row and lies inside the clipped area, and their union is exactly the
\* clipped area.
C31_SubrectanglesTileArea ==
    (ra.pc = "done" /\ ra.count > 0) =>
        LET n == Len(ra.sent)
            c == ra.clipped
        IN /\ n >= 1
           /\ \A k \in 1 .. n :
                 /\ SentRect(k).x1 = c.x1 /\ SentRect(k).x2 = c.x2
                 /\ SentRect(k).y1 < SentRect(k).y2
                 /\ c.y1 <= SentRect(k).y1 /\ SentRect(k).y2 <= c.y2
           /\ \A k \in 1 .. n - 1 : SentRect(k).y2 = SentRect(k + 1).y1
           /\ SentRect(1).y1 = c.y1
           /\ SentRect(n).y2 = c.y2

\* The bytes the window of rectangle r takes at the colour depth of cs.
WindowBytes(cs, r) ==
    IF cs.depth >= 8 THEN (AreaSize(r) * cs.depth) \div 8
    ELSE AreaSize(r) \div (8 \div cs.depth)

\* C32: for every subrectangle streamed during a refresh, the number of
\* pixel-data bytes sent on the bus equals the number of bytes the addressed
\* window requires, and the buffer handed to the bus is never shorter than
\* that.
C32_SentBytesFillWindow ==
    \A k \in 1 .. Len(ra.sent) :
        /\ ra.sent[k].bytes = WindowBytes(colorspace, SentRect(k))
        /\ ra.buffer_len >= WindowBytes(colorspace, SentRect(k))

(***************************************************************************)
(* Group.x and Group.y (displayio/_group.py): moves of Groups in a tree    *)
(* g1 <- g2 that is shown, together with scale changes and display         *)
(* rotations.                                                              *)
(***************************************************************************)
\* The positions assigned.
GroupCoords == {0, MaxCoord}

SetXSceneNoChildren(s, lay, g, v) ==
    LET a == s.abs[g]
        d == v - s.x[g]
    IN [s EXCEPT !.abs[g] = IF a.transpose_xy
                            THEN [a EXCEPT !.y = @ + (a.dy \div s.scale[g]) * d]
                            ELSE [a EXCEPT !.x = @ + (a.dx \div s.scale[g]) * d],
                 !.x[g] = v]

\* The x setter, lines 216-223, for a new value: the absolute transform is
\* moved along the axis x maps to (the divisions are exact), then the
\* children are updated, which _update_child_transforms does only for a
\* Group that is in a group.
SetXScene(s, lay, g, v) ==
    LET a == s.abs[g]
        d == v - s.x[g]
        s1 == [s EXCEPT !.abs[g] = IF a.transpose_xy
                                   THEN [a EXCEPT !.y = @ + (a.dy \div s.scale[g]) * d]
                                   ELSE [a EXCEPT !.x = @ + (a.dx \div s.scale[g]) * d],
                        !.x[g] = v]
    IN IF s1.in_group[g] THEN UpdateLayers(s1, lay, lay[g], g) ELSE s1

\* The y setter, lines 232-239.
SetYScene(s, lay, g, v) ==
    LET a == s.abs[g]
        d == v - s.y[g]
        s1 == [s EXCEPT !.abs[g] = IF a.transpose_xy
                                   THEN [a EXCEPT !.x = @ + (a.dx \div s.scale[g]) * d]
                                   ELSE [a EXCEPT !.y = @ + (a.dy \div s.scale[g]) * d],
                        !.y[g] = v]
    IN IF s1.in_group[g] THEN UpdateLayers(s1, lay, lay[g], g) ELSE s1

MoveFrame ==
    UNCHANGED << layers, coreVars, displayVars, now, bitmapVars, threadVars,
                 histVars, workerVars, rect_a, rect_b, overlap_ab, overlap_ba,
                 union_ab, clipVars, gridVars, initVars, busVars, ctorVars,
                 ra, tileVars, paletteVars >>

\* Group.x = v
GroupSetXCall(g, v) ==
    /\ pc["fg"] = "idle"
    /\ lastCall' = Call("set_x", g, None, FALSE, None)
    /\ IF group_x[g] # v
       THEN /\ SetScene(SetXScene(SceneOf, layers, g, v))
            /\ group_x' = [group_x EXCEPT ![g] = v]
       ELSE UNCHANGED << in_group, abs, tgt, current_area, scale, group_x >>
    /\ UNCHANGED group_y
    /\ MoveFrame

\* Group.y = v
GroupSetYCall(g, v) ==
    /\ pc["fg"] = "idle"
    /\ lastCall' = Call("set_y", g, None, FALSE, None)
    /\ IF group_y[g] # v
       THEN /\ SetScene(SetYScene(SceneOf, layers, g, v))
            /\ group_y' = [group_y EXCEPT ![g] = v]
       ELSE UNCHANGED << in_group, abs, tgt, current_area, scale, group_y >>
    /\ UNCHANGED group_x
    /\ MoveFrame

NextMove ==
    \/ GroupAppend("g1", "g2")
    \/ DisplayShow("g1")
    \/ \E g \in Groups, v \in GroupCoords : GroupSetXCall(g, v)
    \/ \E g \in Groups, v \in GroupCoords : GroupSetYCall(g, v)
    \/ \E g \in Groups, v \in 1 .. MaxScale : GroupSetScale(g, v)
    \/ \E angle \in RotationAngles : SetRotation(angle)

SpecMove == InitTransform /\ [][NextMove]_vars

\* The Groups of the tree that is attached to the display.
Attached == IF current_group = None THEN {}
            ELSE DescOrSelf(layers, current_group) \cap Groups

\* The transform the parent of an attached Group hands down.
ParentOf(g) ==
    IF g = current_group THEN transform
    ELSE abs[CHOOSE p \in Groups : g \in Range(layers[p])]

\* C33: after any sequence of x, y and scale assignments on Groups in a tree
\* attached to the display, every Group's absolute transform equals the one
\* recomputed from its parent's current absolute transform and its own
\* current x, y and scale.
C33_IncrementalIsRecomputed ==
    \A g \in Attached :
        abs[g] = ComposeTransform(ParentOf(g), group_x[g], group_y[g], scale[g])

\* Both Groups have been moved and rescaled after the tree was shown on a
\* rotated display, the inner one last.
C33_Witness ==
    /\ current_group = "g1"
    /\ layers["g1"] = << "g2" >>
    /\ transform.transpose_xy
    /\ group_x["g1"] = MaxCoord
    /\ group_y["g1"] = MaxCoord
    /\ group_x["g2"] = 0
    /\ scale["g1"] = 2
    /\ abs["g2"].scale = 4
    /\ lastCall = Call("set_y", "g2", None, FALSE, None)

(***************************************************************************)
(* TileGrid.x, TileGrid.y and TileGrid.transpose_xy                        *)
(* (displayio/tilegrid.py): assignments on a TileGrid in a tree            *)
(* g1 <- g2 <- t1, together with moves of the Group that holds it, scale   *)
(* changes of the root and display rotations.                              *)
(***************************************************************************)
\* The positions assigned to the TileGrid.
TileCoords == {0, MaxCoord}

TileGridSetXSceneStale(s, t, v) == [s EXCEPT !.tile_x[t] = v]

\* The x setter, lines 297-299, for a new value.
TileGridSetXScene(s, t, v) == UpdateCurrentX([s EXCEPT !.tile_x[t] = v], t)

\* The y setter, lines 310-312, for a new value.
TileGridSetYScene(s, t, v) == UpdateCurrentY([s EXCEPT !.tile_y[t] = v], t)

\* The transpose_xy setter, lines 349-352, for a new value.
TileGridSetTransposeScene(s, t, v) ==
    UpdateCurrentY(UpdateCurrentX([s EXCEPT !.tile_transpose_xy[t] = v], t), t)

TileFrame ==
    UNCHANGED << layers, coreVars, displayVars, now, bitmapVars, threadVars,
                 histVars, workerVars, rect_a, rect_b, overlap_ab, overlap_ba,
                 union_ab, clipVars, gridVars, initVars, busVars, ctorVars,
                 ra, group_x, group_y, paletteVars >>

\* TileGrid.x = v.  The new value is stored first; _update_current_x then
\* reads self._absolute_transform.transpose_xy, an AttributeError when the
\* attribute is None.
TileGridSetX(t, v) ==
    /\ pc["fg"] = "idle"
    /\ IF tile_x[t] = v
       THEN /\ lastCall' = Call("tile_set_x", None, t, FALSE, None)
            /\ UNCHANGED << in_group, abs, tgt, current_area, scale, tile_x >>
       ELSE /\ tile_x' = [tile_x EXCEPT ![t] = v]
            /\ IF tgt[t] = None
               THEN /\ lastCall' = Call("tile_set_x", None, t, TRUE, None)
                    /\ UNCHANGED << in_group, abs, tgt, current_area, scale >>
               ELSE /\ lastCall' = Call("tile_set_x", None, t, FALSE, None)
                    /\ SetScene(TileGridSetXScene(SceneOf, t, v))
    /\ UNCHANGED << tile_y, tile_transpose_xy >>
    /\ TileFrame

\* TileGrid.y = v
TileGridSetY(t, v) ==
    /\ pc["fg"] = "idle"
    /\ IF tile_y[t] = v
       THEN /\ lastCall' = Call("tile_set_y", None, t, FALSE, None)
            /\ UNCHANGED << in_group, abs, tgt, current_area, scale, tile_y >>
       ELSE /\ tile_y' = [tile_y EXCEPT ![t] = v]
            /\ IF tgt[t] = None
               THEN /\ lastCall' = Call("tile_set_y", None, t, TRUE, None)
                    /\ UNCHANGED << in_group, abs, tgt, current_area, scale >>
               ELSE /\ lastCall' = Call("tile_set_y", None, t, FALSE, None)
                    /\ SetScene(TileGridSetYScene(SceneOf, t, v))
    /\ UNCHANGED << tile_x, tile_transpose_xy >>
    /\ TileFrame

\* TileGrid.transpose_xy = v
TileGridSetTranspose(t, v) ==
    /\ pc["fg"] = "idle"
    /\ IF tile_transpose_xy[t] = v
       THEN /\ lastCall' = Call("tile_set_transpose_xy", None, t, FALSE, None)
            /\ UNCHANGED << in_group, abs, tgt, current_area, scale,
                            tile_transpose_xy >>
       ELSE /\ tile_transpose_xy' = [tile_transpose_xy EXCEPT ![t] = v]
            /\ IF tgt[t] = None
               THEN /\ lastCall' = Call("tile_set_transpose_xy", None, t, TRUE, None)
                    /\ UNCHANGED << in_group, abs, tgt, current_area, scale >>
               ELSE /\ lastCall' = Call("tile_set_transpose_xy", None, t, FALSE, None)
                    /\ SetScene(TileGridSetTransposeScene(SceneOf, t, v))
    /\ UNCHANGED << tile_x, tile_y >>
    /\ TileFrame

NextTile ==
    \/ GroupAppend("g1", "g2")
    \/ GroupAppend("g2", "t1")
    \/ DisplayShow("g1")
    \/ \E v \in TileCoords : TileGridSetX("t1", v)
    \/ \E v \in TileCoords : TileGridSetY("t1", v)
    \/ \E v \in BOOLEAN : TileGridSetTranspose("t1", v)
    \/ \E v \in GroupCoords : GroupSetXCall("g2", v)
    \/ \E v \in GroupCoords : GroupSetYCall("g2", v)
    \/ \E v \in 1 .. MaxScale : GroupSetScale("g1", v)
    \/ \E angle \in RotationAngles : SetRotation(angle)

SpecTile == InitTransform /\ [][NextTile]_vars

\* The TileGrids of the tree that is attached to the display.
AttachedTiles == IF current_group = None THEN {}
                 ELSE DescOrSelf(layers, current_group) \cap TileGrids

\* The rectangle a TileGrid covers in its parent's coordinates.
LocalRect(t) ==
    LET w == IF tile_transpose_xy[t] THEN PixelHeight ELSE PixelWidth
        h == IF tile_transpose_xy[t] THEN PixelWidth ELSE PixelHeight
    IN Area(tile_x[t], tile_y[t], tile_x[t] + w, tile_y[t] + h)

\* The image of a rectangle under a transform: the corners are mapped and
\* the result is ordered.
ImageUnder(at, r) ==
    LET u1 == IF at.transpose_xy THEN r.y1 ELSE r.x1
        u2 == IF at.transpose_xy THEN r.y2 ELSE r.x2
        v1 == IF at.transpose_xy THEN r.x1 ELSE r.y1
        v2 == IF at.transpose_xy THEN r.x2 ELSE r.y2
        ax == at.x + at.dx * u1
        bx == at.x + at.dx * u2
        ay == at.y + at.dy * v1
        by == at.y + at.dy * v2
    IN Area(Min(ax, bx), Min(ay, by), Max(ax, bx), Max(ay, by))

\* The Group that holds TileGrid t.
HolderOf(t) == CHOOSE p \in Groups : t \in Range(layers[p])

\* C34: after any sequence of TileGrid x, y and transpose_xy assignments,
\* Group moves and scale changes and display rotations, the current area of
\* every TileGrid attached under the root is canonical and equals the image
\* of its local rectangle under its parent's current absolute transform.
C34_CurrentAreaIsImage ==
    \A t \in AttachedTiles :
        /\ current_area[t].x1 <= current_area[t].x2
        /\ current_area[t].y1 <= current_area[t].y2
        /\ current_area[t] = ImageUnder(abs[HolderOf(t)], LocalRect(t))

\* The TileGrid was moved and transposed under a moved, scaled Group on a
\* display that mirrors and transposes.
C34_Witness ==
    /\ "t1" \in AttachedTiles
    /\ rotation = 90
    /\ abs["g2"].transpose_xy /\ abs["g2"].mirror_x
    /\ abs["g2"].scale = 2
    /\ group_x["g2"] = MaxCoord
    /\ tile_x["t1"] = MaxCoord
    /\ tile_y["t1"] = 0
    /\ tile_transpose_xy["t1"]
    /\ lastCall = Call("tile_set_x", None, "t1", FALSE, None)

(***************************************************************************)
(* A bus operation that fails during a refresh pass                        *)
(* (displayio/_display.py, displayio/_displaycore.py): the manual          *)
(* refresh() alone, with a send that may raise.                            *)
(***************************************************************************)
\* A send of the open transaction raises (an OSError of the SPI or I2C
\* driver): neither set_region_to_update, _refresh_area, _refresh_display
\* nor refresh catches it, so the call is left at that point, before
\* end_transaction and before finish_refresh.
BusRaise ==
    /\ bus_pc["fg"] \in {"col_open", "row_open", "pix_open"}
    /\ bus_pc' = [bus_pc EXCEPT !["fg"] = "idle"]
    /\ pc' = [pc EXCEPT !["fg"] = "idle"]
    /\ lastCall' = Call("refresh", None, None, TRUE, None)
    /\ UNCHANGED << sceneVars, coreVars, displayVars, now, bitmapVars, areas,
                    idx, wcoord, histVars, workerVars, rect_a, rect_b,
                    overlap_ab, overlap_ba, union_ab, clipVars, gridVars,
                    initVars, ctorVars, extraVars, bus_owner, sub_index,
                    sub_count >>

NextBusRaise ==
    \/ GroupAppend("g1", "t1")
    \/ DisplayShow("g1")
    \/ BitmapSetItem(0, 0)
    \/ RefreshCall
    \/ StartRefreshTest("fg")
    \/ StartRefreshSet("fg")
    \/ CollectAreas("fg")
    \/ RefreshAreaClip("fg")
    \/ BeginTransaction("fg")
    \/ SetRegionColumn("fg")
    \/ SetRegionRow("fg")
    \/ FillArea("fg")
    \/ SendPixels("fg")
    \/ FinishRefresh("fg")
    \/ BusRaise
    \/ Tick(RaceMaxTime)

SpecBusRaise == Init /\ [][NextBusRaise]_vars

\* No call of refresh() is under way.
NoPass == \A t \in Threads : pc[t] = "idle"

\* C35: when a bus operation has failed in the middle of a refresh pass,
\* refresh_in_progress does not stay set: once the failed call has been
\* left the flag is clear, so that the next refresh() starts a pass.
C35_FlagClearAfterFailure == NoPass => ~refresh_in_progress

\* Once the flag is set with no pass under way it stays set.
FlagStaysSet ==
    [][(NoPass /\ refresh_in_progress) => refresh_in_progress']_vars

(***************************************************************************)
(* Sends and transactions (displayio/_display.py,                          *)
(* displayio/_displaycore.py): the constructor's init sequence followed by *)
(* manual refresh passes.                                                  *)
(***************************************************************************)
NextEngine ==
    \/ InitializeStep
    \/ InitializeDone /\ DisplayShow("g1")
    \/ InitializeDone /\ RefreshCall
    \/ StartRefreshTest("fg")
    \/ StartRefreshSet("fg")
    \/ CollectAreas("fg")
    \/ RefreshAreaClip("fg")
    \/ BeginTransaction("fg")
    \/ SetRegionColumn("fg")
    \/ SetRegionRow("fg")
    \/ FillArea("fg")
    \/ SendPixels("fg")
    \/ FinishRefresh("fg")

SpecEngine == InitInitialize /\ [][NextEngine]_vars

\* The steps in which a thread sends commands or data to the bus.
Sends(t) ==
    \/ t = "fg" /\ InitializeStep
    \/ SetRegionColumn(t)
    \/ SetRegionRow(t)
    \/ SendPixels(t)

\* C36: every send of the display engine (init sequence, addressing
\* commands, pixel data) is made while a transaction opened by
\* begin_transaction is open, and a begin_transaction is made only when
\* the one before it has been ended.
C36_SendsInsideTransaction ==
    [][\A t \in Threads :
           /\ Sends(t) => bus_owner = t
           /\ BeginTransaction(t) => bus_owner = None]_vars

\* C37: auto-refresh can be toggled any number of times: no assignment to
\* auto_refresh raises, and whenever auto_refresh is true after the setter
\* has returned, the background worker is alive.
C37_WorkerRunsWhenEnabled ==
    /\ lastCall.op = "auto_refresh" => ~lastCall.raised
    /\ (pc["fg"] = "idle" /\ auto_refresh) => refresh_thread = "alive"

(***************************************************************************)
(* Palette (displayio/palette.py): colours assigned to slots, slots made   *)
(* transparent and opaque.                                                 *)
(***************************************************************************)
\* The colours assigned; the last one is out of range.
PaletteValues == {0, 255, 66051, 16777215, 16777216}

PaletteFrame ==
    UNCHANGED << sceneVars, coreVars, displayVars, now, bitmapVars,
                 threadVars, histVars, workerVars, rect_a, rect_b, overlap_ab,
                 overlap_ba, union_ab, clipVars, gridVars, initVars, busVars,
                 ctorVars, ra, group_x, group_y, tileVars >>

\* Palette.__setitem__, lines 78-80: a value that differs from the slot's
\* colour replaces the slot by _make_color(value); a value out of range is
\* a ValueError of _make_color, before the slot is written.
PaletteSetItem(index, value) ==
    /\ pc["fg"] = "idle"
    /\ IF colors[index].rgb888 = value
       THEN /\ lastCall' = Call("palette_setitem", None, None, FALSE, None)
            /\ UNCHANGED colors
       ELSE IF value \notin 0 .. 16777215
       THEN /\ lastCall' = Call("palette_setitem", None, None, TRUE, None)
            /\ UNCHANGED colors
       ELSE /\ lastCall' = Call("palette_setitem", None, None, FALSE, None)
            /\ colors' = [colors EXCEPT ![index] = UpdateRgba(MakeColor(value, FALSE))]
    /\ PaletteFrame

\* Palette.make_transparent, lines 87-90.
MakeTransparent(palette_index) ==
    /\ pc["fg"] = "idle"
    /\ colors' = [colors EXCEPT ![palette_index] =
                     UpdateRgba([@ EXCEPT !.transparent = TRUE])]
    /\ lastCall' = Call("make_transparent", None, None, FALSE, None)
    /\ PaletteFrame

\* Palette.make_opaque, lines 92-95.
MakeOpaque(palette_index) ==
    /\ pc["fg"] = "idle"
    /\ colors' = [colors EXCEPT ![palette_index] =
                     UpdateRgba([@ EXCEPT !.transparent = FALSE])]
    /\ lastCall' = Call("make_opaque", None, None, FALSE, None)
    /\ PaletteFrame

NextPalette ==
    \/ \E i \in PaletteSlots, v \in PaletteValues : PaletteSetItem(i, v)
    \/ \E i \in PaletteSlots : MakeTransparent(i)
    \/ \E i \in PaletteSlots : MakeOpaque(i)

SpecPalette == InitTransform /\ [][NextPalette]_vars

\* C38: assigning a colour to a palette slot leaves the slot's transparency
\* flag and every other slot as they were, so that a slot made transparent
\* stays transparent until make_opaque is called on it.
C38_SetItemKeepsTransparency ==
    [][\A i \in PaletteSlots, v \in PaletteValues :
           PaletteSetItem(i, v) =>
               /\ colors'[i].transparent = colors[i].transparent
               /\ \A j \in PaletteSlots \ {i} : colors'[j] = colors[j]]_vars

(***************************************************************************)
(* The life of a TileGrid (displayio/tilegrid.py, displayio/group.py):     *)
(* never attached, appended to a Group, popped or removed again, with x, y *)
(* and transpose_xy assigned in each state.                                *)
(***************************************************************************)
NextTileLife ==
    \/ GroupAppend("g1", "t1")
    \/ GroupPop("g1", 0)
    \/ GroupRemove("g1", "t1")
    \/ DisplayShow("g1")
    \/ \E v \in TileCoords : TileGridSetX("t1", v)
    \/ \E v \in TileCoords : TileGridSetY("t1", v)
    \/ \E v \in BOOLEAN : TileGridSetTranspose("t1", v)

SpecTileLife == InitTransform /\ [][NextTileLife]_vars

TileSetters == {"tile_set_x", "tile_set_y", "tile_set_transpose_xy"}

\* C39: an assignment to x, y or transpose_xy of a TileGrid completes
\* without an error in every state of its life: never attached, attached,
\* and after it has been popped or removed from its Group.
C39_SettersNeverRaise == lastCall.op \in TileSetters => ~lastCall.raised

(***************************************************************************)
(* The display core built with a rotation (displayio/_displaycore.py):     *)
(* _DisplayCore(..., rotation=r, ...) for r in {0, 90, 180, 270}, then     *)
(* set_rotation calls on a display with and without a root group.          *)
(***************************************************************************)
\* _DisplayCore.__init__, lines 73-118: the rotation argument is stored
\* (line 98), the transform is a new TransformStruct() (line 99) and the
\* area is the width and height as they were passed (line 113);
\* set_rotation is not called.
InitCoreRotated ==
    /\ current_group = None
    /\ full_refresh = FALSE
    /\ refresh_in_progress = FALSE
    /\ last_refresh = 0
    /\ rotation \in RotationAngles
    /\ width = DisplayWidth
    /\ height = DisplayHeight
    /\ transform = IdentityTransform
    /\ area = Area(0, 0, DisplayWidth, DisplayHeight)

InitRotated ==
    /\ InitScene /\ InitCoreRotated /\ InitBitmap /\ InitThreads /\ InitRects
    /\ auto_refresh = FALSE
    /\ first_manual_refresh = TRUE
    /\ last_refresh_call = 0
    /\ now = 0
    /\ lastCall = Call("init", None, None, FALSE, None)

NextRotated ==
    \/ GroupAppend("g1", "t1")
    \/ \E g \in {"g1", None} : DisplayShow(g)
    \/ \E angle \in RotationAngles : SetRotation(angle)

SpecRotated == InitRotated /\ [][NextRotated]_vars

\* C40: in every reachable state of a display core, right after
\* construction with a rotation of 0, 90, 180 or 270 included, the device
\* transform agrees with the rotation field: transpose_xy exactly when the
\* rotation is 90 or 270, mirror_x exactly when it is 90 or 180, mirror_y
\* exactly when it is 180 or 270.
C40_TransformAgreesWithRotation ==
    /\ transform.transpose_xy <=> rotation \in {90, 270}
    /\ transform.mirror_x <=> rotation \in {90, 180}
    /\ transform.mirror_y <=> rotation \in {180, 270}

====
